---- MODULE Spec2Model ----
(***************************************************************************)
(* Model of the Google reviews client of ImGenos/Dm-Placards:              *)
(*   src/src/utils/google-places-api.ts  (GooglePlacesService)             *)
(*   src/src/utils/error-handling.ts     (classifier, retry engine)        *)
(*   src/src/utils/config.ts             (configuration)                   *)
(* Times are counted in ticks of 10 ms; Ms(n) is n milliseconds.           *)
(***************************************************************************)
EXTENDS Integers, Sequences, FiniteSets, TLC

VARIABLES
  store,             \* localStorage: key (place id) -> stored item
  now,               \* Date.now()
  online,            \* navigator.onLine
  onlineEvent,       \* an 'online' event is queued and not yet dispatched
  flips,             \* how many times the connection has changed
  config,            \* the environment read by config.ts
  calls,             \* one record per asynchronous call (its position and locals)
  apiCallQueue,      \* GooglePlacesService.apiCallQueue (closures, by call id)
  isProcessingQueue, \* GooglePlacesService.isProcessingQueue
  lastApiCall,       \* GooglePlacesService.lastApiCall
  worker,            \* the call whose closure processApiQueue awaits (0: none)
  requestLog,        \* times of the requests sent to the reviews endpoint
  harness            \* the operation applied last by a direct caller and its result

vars == <<store, now, online, onlineEvent, flips, config, calls, apiCallQueue,
          isProcessingQueue, lastApiCall, worker, requestLog, harness>>

-----------------------------------------------------------------------------
(* JavaScript values: a value carries its typeof tag.                      *)

Undefined == [t |-> "undefined"]
Null == [t |-> "null"]
NaN == [t |-> "NaN"]
Num(n) == [t |-> "number", v |-> n]
Str(s) == [t |-> "string", v |-> s]
Arr(s) == [t |-> "array", v |-> s]
Obj(r) == [t |-> "object", v |-> r]

\* typeof x === 'number' (NaN is a number)
IsNumber(x) == x.t \in {"number", "NaN"}

\* Array.isArray(x)
IsArray(x) == x.t = "array"

\* the truthiness of x in a condition
Truthy(x) ==
  CASE x.t = "undefined" -> FALSE
    [] x.t = "null" -> FALSE
    [] x.t = "NaN" -> FALSE
    [] x.t = "number" -> x.v # 0
    [] x.t = "string" -> x.v # ""
    [] OTHER -> TRUE

\* String.prototype.includes
Includes(s, p) ==
  \E i \in 1..(Len(s) - Len(p) + 1) : SubSeq(s, i, i + Len(p) - 1) = p

Min(a, b) == IF a <= b THEN a ELSE b

\* n milliseconds, in ticks
Ms(n) == n \div 10

-----------------------------------------------------------------------------
(* Review filtering: filterAndSortReviews.                                 *)

\* .slice(0, 10)
MaxReviews == 10

\* review => review.rating >= 4
MinRating == 4

\* Array.prototype.filter with the rating predicate
RECURSIVE FilterByRating(_)
FilterByRating(reviews) ==
  IF reviews = <<>> THEN <<>>
  ELSE IF Head(reviews).rating >= MinRating
       THEN <<Head(reviews)>> \o FilterByRating(Tail(reviews))
       ELSE FilterByRating(Tail(reviews))

\* One insertion of the stable sort with comparator (a, b) => b.time - a.time:
\* r goes behind every element the comparator does not order after it.
RECURSIVE InsertByTime(_, _)
InsertByTime(sorted, r) ==
  IF sorted = <<>> THEN <<r>>
  ELSE IF r.time - Head(sorted).time > 0
       THEN <<r>> \o sorted
       ELSE <<Head(sorted)>> \o InsertByTime(Tail(sorted), r)

\* Array.prototype.sort((a, b) => b.time - a.time), stable
RECURSIVE SortByTimeDesc(_, _)
SortByTimeDesc(sorted, rest) ==
  IF rest = <<>> THEN sorted
  ELSE SortByTimeDesc(InsertByTime(sorted, Head(rest)), Tail(rest))

Slice(s, n) == SubSeq(s, 1, Min(n, Len(s)))

filterAndSortReviews_CapFirst(reviews) ==
  SortByTimeDesc(<<>>, FilterByRating(Slice(reviews, MaxReviews)))

filterAndSortReviews(reviews) ==
  Slice(SortByTimeDesc(<<>>, FilterByRating(reviews)), MaxReviews)

-----------------------------------------------------------------------------
(* Errors and their classification: createGooglePlacesError.               *)

\* a thrown value: an Error with its name and message, or a value that is no
\* Error (instanceOfError FALSE)
ErrorNamed(name, message) ==
  [instanceOfError |-> TRUE, name |-> name, message |-> message]
Error(message) == ErrorNamed("Error", message)
NonError == [instanceOfError |-> FALSE, name |-> "", message |-> ""]

Classified(type, message, retryable, retryAfter) ==
  [type |-> type, message |-> message, retryable |-> retryable,
   retryAfter |-> retryAfter]

ClassifyMessage_StatusFirst(m) ==
  IF Includes(m, "HTTP Error: 429")
  THEN Classified("RATE_LIMIT_ERROR", "API rate limit exceeded", TRUE, Num(Ms(5000)))
  ELSE IF Includes(m, "HTTP Error: 400")
  THEN Classified("INVALID_REQUEST", "Invalid request to Google Places API",
                  FALSE, Undefined)
  ELSE IF Includes(m, "fetch") \/ Includes(m, "network") \/ Includes(m, "Failed to fetch")
     \/ Includes(m, "Network error")
  THEN Classified("NETWORK_ERROR", "Network error occurred while fetching reviews",
                  TRUE, Num(Ms(2000)))
  ELSE IF Includes(m, "timeout") \/ Includes(m, "aborted")
  THEN Classified("TIMEOUT_ERROR", "Request timeout", TRUE, Num(Ms(3000)))
  ELSE Classified("UNKNOWN_ERROR", m, FALSE, Undefined)

\* the classification of an Error by the text of its message (lines 49-138)
ClassifyMessage(m) ==
  IF Includes(m, "fetch") \/ Includes(m, "network") \/ Includes(m, "Failed to fetch")
     \/ Includes(m, "Network error")
  THEN Classified("NETWORK_ERROR", "Network error occurred while fetching reviews",
                  TRUE, Num(Ms(2000)))
  ELSE IF Includes(m, "timeout") \/ Includes(m, "aborted")
  THEN Classified("TIMEOUT_ERROR", "Request timeout", TRUE, Num(Ms(3000)))
  ELSE IF Includes(m, "HTTP Error: 429")
  THEN Classified("RATE_LIMIT_ERROR", "API rate limit exceeded", TRUE, Num(Ms(5000)))
  ELSE IF Includes(m, "HTTP Error: 400")
  THEN Classified("INVALID_REQUEST", "Invalid request to Google Places API",
                  FALSE, Undefined)
  ELSE IF Includes(m, "HTTP Error: 404")
  THEN Classified("NOT_FOUND", "Place not found", FALSE, Undefined)
  ELSE IF Includes(m, "HTTP Error: 500") \/ Includes(m, "HTTP Error: 502")
          \/ Includes(m, "HTTP Error: 503")
  THEN Classified("API_ERROR", "Google Places API server error", TRUE, Num(Ms(10000)))
  ELSE IF Includes(m, "API Error: OVER_QUERY_LIMIT")
  THEN Classified("RATE_LIMIT_ERROR", "Google Places API quota exceeded",
                  TRUE, Num(Ms(60000)))
  ELSE IF Includes(m, "API Error: REQUEST_DENIED")
  THEN Classified("API_ERROR", "Google Places API request denied", FALSE, Undefined)
  ELSE IF Includes(m, "API Error: INVALID_REQUEST")
  THEN Classified("INVALID_REQUEST", "Invalid request parameters", FALSE, Undefined)
  ELSE IF Includes(m, "API Error: ZERO_RESULTS")
  THEN Classified("NOT_FOUND", "No reviews found for this place", FALSE, Undefined)
  ELSE IF Includes(m, "API Error")
  THEN Classified("API_ERROR", "Google Places API error", TRUE, Num(Ms(30000)))
  ELSE Classified("UNKNOWN_ERROR", m, FALSE, Undefined)

\* the messages of the errors that the modelled code and operations throw
Messages ==
  {"Failed to fetch", "Network error", "NetworkError when attempting to fetch resource.",
   "Request timeout after 15000ms", "The operation was aborted",
   "Request timeout - Google Places API took too long to respond",
   "Network error - Unable to connect to Google Places API",
   "HTTP Error: 400 - Invalid request parameters", "HTTP Error: 400 Bad Request",
   "HTTP Error: 401 - Invalid API key", "HTTP Error: 403 - API access forbidden",
   "HTTP Error: 404 - Place not found", "HTTP Error: 429 - Rate limit exceeded",
   "HTTP Error: 500 - Google server error", "HTTP Error: 502 - Google server error",
   "HTTP Error: 503 - Google server error", "HTTP Error: 504 - Google server error",
   "Unexpected token < in JSON at position 0", "Invalid API response format",
   "API Error: OVER_QUERY_LIMIT", "API Error: REQUEST_DENIED",
   "API Error: INVALID_REQUEST", "API Error: ZERO_RESULTS", "API Error: UNKNOWN_ERROR",
   "API Error: NOT_FOUND", "API Error: OK", "API Error: undefined",
   "User is offline and connection timeout exceeded",
   "User is offline and no cached data available",
   "Network connectivity validation failed", "reviews.filter is not a function",
   "Something else went wrong"}

\* ClassifyMessage over Messages, computed once
ClassifiedMessages == [m \in Messages |-> ClassifyMessage(m)]

createGooglePlacesError_MessageFirst(error, context, onLine) ==
  LET g == IF error.instanceOfError THEN ClassifyMessage(error.message)
           ELSE IF ~onLine
           THEN Classified("OFFLINE_ERROR", "User is offline", TRUE, Num(Ms(5000)))
           ELSE Classified("UNKNOWN_ERROR", "An unknown error occurred",
                           FALSE, Undefined)
  IN IF context # ""
     THEN [g EXCEPT !.message = context \o ": " \o g.message]
     ELSE g

\* createGooglePlacesError(error, context), read while navigator.onLine = onLine;
\* context "" stands for an omitted context
createGooglePlacesError(error, context, onLine) ==
  LET g == IF ~onLine
           THEN Classified("OFFLINE_ERROR", "User is offline", TRUE, Num(Ms(5000)))
           ELSE IF error.instanceOfError
           THEN IF error.message \in Messages
                THEN ClassifiedMessages[error.message]
                ELSE ClassifyMessage(error.message)
           ELSE Classified("UNKNOWN_ERROR", "An unknown error occurred",
                           FALSE, Undefined)
  IN IF context # ""
     THEN [g EXCEPT !.message = context \o ": " \o g.message]
     ELSE g

-----------------------------------------------------------------------------
(* The cache store: localStorage under the 'google_reviews_' prefix.       *)

CACHE_DURATION == 24 * 60 * 60 * Ms(1000)
CACHE_KEY_PREFIX == "google_reviews_"
CACHE_VERSION == "1.0.0"
MAX_CACHE_SIZE == 10

CacheKey(placeId) == CACHE_KEY_PREFIX \o placeId

\* key.startsWith(prefix)
StartsWith(key, prefix) ==
  Len(key) >= Len(prefix) /\ SubSeq(key, 1, Len(prefix)) = prefix

\* A stored item is a string: Json(v) is the text JSON.stringify gives for v,
\* Text(s) is a string JSON.parse rejects ("" included).
Json(v) == [parses |-> TRUE, v |-> v, s |-> ""]
Text(s) == [parses |-> FALSE, v |-> Undefined, s |-> s]

\* JSON.stringify of one member value: NaN becomes null; an undefined member is
\* left out of the text, so that it reads back as undefined
StringifyMember(x) == IF x.t = "NaN" THEN Null ELSE x

\* JSON.stringify(placeDetails)
StringifyData(d) ==
  IF d.t # "object" THEN StringifyMember(d)
  ELSE Obj([name |-> StringifyMember(d.v.name),
            rating |-> StringifyMember(d.v.rating),
            user_ratings_total |-> StringifyMember(d.v.user_ratings_total),
            reviews |-> StringifyMember(d.v.reviews),
            place_id |-> StringifyMember(d.v.place_id)])

\* JSON.stringify(cacheData)
JSONstringify(e) ==
  Json(Obj([data |-> StringifyData(e.data),
            timestamp |-> StringifyMember(e.timestamp),
            expiresAt |-> StringifyMember(e.expiresAt),
            version |-> StringifyMember(e.version),
            fetchDuration |-> StringifyMember(e.fetchDuration)]))

PlaceDetails(name, rating, total, reviews, placeId) ==
  Obj([name |-> name, rating |-> rating, user_ratings_total |-> total,
       reviews |-> reviews, place_id |-> placeId])

\* member access on a parsed value: undefined when the value is no object
Member(x, f) ==
  IF x.t = "object" /\ f \in DOMAIN x.v THEN x.v[f] ELSE Undefined

\* validateCacheData(cacheData)
validateCacheData(cacheData) ==
  /\ Truthy(cacheData)
  /\ cacheData.t = "object"
  /\ Truthy(Member(cacheData, "data"))
  /\ IsNumber(Member(cacheData, "timestamp"))
  /\ IsNumber(Member(cacheData, "expiresAt"))
  /\ Truthy(Member(Member(cacheData, "data"), "name"))
  /\ IsNumber(Member(Member(cacheData, "data"), "rating"))
  /\ IsArray(Member(Member(cacheData, "data"), "reviews"))

\* localStorage.removeItem(key)
RemoveItem(st, key) == [k \in (DOMAIN st) \ {key} |-> st[k]]

\* localStorage.setItem(key, item)
SetItem(st, key, item) ==
  [k \in (DOMAIN st) \cup {key} |-> IF k = key THEN item ELSE st[k]]

Before_Inclusive(t, expiresAt) == expiresAt.t = "number" /\ t <= expiresAt.v

\* now < expiresAt for a numeric expiresAt (a comparison with NaN is false)
Before(t, expiresAt) == expiresAt.t = "number" /\ t < expiresAt.v

getCachedReviews_KeepMismatch(st, t, placeId, allowExpired) ==
  LET key == CacheKey(placeId)
      removed == [store |-> RemoveItem(st, key), ret |-> Null]
  IN IF key \notin DOMAIN st \/ st[key] = Text("")
     THEN [store |-> st, ret |-> Null]
     ELSE IF ~st[key].parses THEN removed
     ELSE IF ~validateCacheData(st[key].v) THEN removed
     ELSE IF allowExpired \/ Before(t, Member(st[key].v, "expiresAt"))
     THEN IF Truthy(Member(st[key].v, "fetchDuration"))
             /\ ~IsNumber(Member(st[key].v, "fetchDuration"))
          THEN removed
          ELSE [store |-> st, ret |-> Member(st[key].v, "data")]
     ELSE removed

\* getCachedReviews(placeId, allowExpired) at time t on store st: the store it
\* leaves and the value it returns (Null for null).  JSON.parse throwing, and
\* fetchDuration.toFixed throwing for a fetchDuration that is no number, end in
\* the catch block, which removes the entry.
getCachedReviews(st, t, placeId, allowExpired) ==
  LET key == CacheKey(placeId)
      removed == [store |-> RemoveItem(st, key), ret |-> Null]
  IN IF key \notin DOMAIN st \/ st[key] = Text("")
     THEN [store |-> st, ret |-> Null]
     ELSE IF ~st[key].parses THEN removed
     ELSE IF ~validateCacheData(st[key].v) THEN removed
     ELSE IF Member(st[key].v, "version") # Str(CACHE_VERSION) THEN removed
     ELSE IF allowExpired \/ Before(t, Member(st[key].v, "expiresAt"))
     THEN IF Truthy(Member(st[key].v, "fetchDuration"))
             /\ ~IsNumber(Member(st[key].v, "fetchDuration"))
          THEN removed
          ELSE [store |-> st, ret |-> Member(st[key].v, "data")]
     ELSE removed

\* the keys of localStorage under the prefix (lines 531-533)
CacheKeys(st) == {k \in DOMAIN st : StartsWith(k, CACHE_KEY_PREFIX)}

\* data.timestamp || 0 of JSON.parse(localStorage.getItem(key) || '{}'), 0 when
\* the parse or the member access throws (lines 538-543)
TimestampOf(item) ==
  IF item.parses /\ Member(item.v, "timestamp").t = "number"
  THEN Member(item.v, "timestamp").v
  ELSE 0

EvictionChoices_Any(st) ==
  LET keys == CacheKeys(st)
  IN IF Cardinality(keys) < MAX_CACHE_SIZE THEN {{}}
     ELSE {w \in SUBSET keys : Cardinality(w) = Cardinality(keys) - MAX_CACHE_SIZE + 1}

\* The sets of entries manageCacheSize may remove from st: the first
\* (length - MAX_CACHE_SIZE + 1) entries of the keys sorted by timestamp; entries
\* of equal timestamp stand in the order Object.keys(localStorage) gives them,
\* which the platform chooses.
EvictionChoices(st) ==
  LET keys == CacheKeys(st)
      n == Cardinality(keys) - MAX_CACHE_SIZE + 1
      Older(k) == {a \in keys : TimestampOf(st[a]) < TimestampOf(st[k])}
      Same(k) == {a \in keys : TimestampOf(st[a]) = TimestampOf(st[k])}
      \* the entries at the timestamp where the n-th oldest entry stands
      border == {k \in keys : Cardinality(Older(k)) < n
                                /\ n <= Cardinality(Older(k) \cup Same(k))}
      sure == {a \in keys : \A k \in border : TimestampOf(st[a]) < TimestampOf(st[k])}
  IN IF Cardinality(keys) < MAX_CACHE_SIZE THEN {{}}
     ELSE {sure \cup w : w \in {x \in SUBSET border :
                                   Cardinality(x) = n - Cardinality(sure)}}

manageCacheSize_Keep(st, victims) == st

\* manageCacheSize() removing the entries victims, one of EvictionChoices(st)
manageCacheSize(st, victims) ==
  [k \in (DOMAIN st) \ victims |-> st[k]]

\* now >= cachedData.expiresAt of a parsed item, TRUE also when reading it throws
\* (lines 573-586)
ExpiredOrCorrupt(item, t) ==
  IF ~item.parses THEN TRUE
  ELSE IF item.v.t \in {"null", "undefined"} THEN TRUE
  ELSE LET e == Member(item.v, "expiresAt")
       IN CASE e.t = "number" -> t >= e.v
            [] e.t = "null" -> t >= 0
            [] OTHER -> FALSE

\* clearExpiredCache() at time t
clearExpiredCache(st, t) ==
  [k \in {k \in DOMAIN st :
            ~(k \in CacheKeys(st) /\ st[k] # Text("") /\ ExpiredOrCorrupt(st[k], t))}
     |-> st[k]]

CacheEntry_NoDuration(data, t, fetchDuration) ==
  [data |-> data, timestamp |-> Num(t), expiresAt |-> Num(t),
   version |-> Str(CACHE_VERSION), fetchDuration |-> fetchDuration]

\* the cacheData object setCachedReviews builds (lines 298-304)
CacheEntry(data, t, fetchDuration) ==
  [data |-> data, timestamp |-> Num(t), expiresAt |-> Num(t + CACHE_DURATION),
   version |-> Str(CACHE_VERSION), fetchDuration |-> fetchDuration]

\* What localStorage.setItem does on a call: it stores, or throws the quota
\* DOMException (code 22), or throws something else.
WriteOutcomes == {"stored", "quota", "other"}

setCachedReviewsRun_RetryAlways(st, t, placeId, data, fetchDuration, victims, w1, w2) ==
  LET managed == manageCacheSize(st, victims)
      item == JSONstringify(CacheEntry(data, t, fetchDuration))
      cleared == clearExpiredCache(managed, t)
  IN IF w1 = "stored"
     THEN [store |-> SetItem(managed, CacheKey(placeId), item), setItems |-> 1,
           purged |-> FALSE, raised |-> FALSE]
     ELSE [store |-> IF w2 = "stored" THEN SetItem(cleared, CacheKey(placeId), item)
                     ELSE cleared,
           setItems |-> 2, purged |-> TRUE, raised |-> FALSE]

\* setCachedReviews(placeId, data, fetchDuration) at time t, where w1 is the
\* outcome of setItem at line 306 and w2 at line 329: the store it leaves, the
\* number of its setItem calls, whether it called clearExpiredCache, and whether
\* an exception left it.  The outer catch (line 312) takes every exception of the
\* first write, clearExpiredCache catches its own, and the inner catch (line 330)
\* takes every exception of the second write.
setCachedReviewsRun(st, t, placeId, data, fetchDuration, victims, w1, w2) ==
  LET managed == manageCacheSize(st, victims)
      item == JSONstringify(CacheEntry(data, t, fetchDuration))
  IN IF w1 = "stored"
     THEN [store |-> SetItem(managed, CacheKey(placeId), item), setItems |-> 1,
           purged |-> FALSE, raised |-> FALSE]
     ELSE IF w1 = "quota"
     THEN LET cleared == clearExpiredCache(managed, t)
          IN [store |-> IF w2 = "stored" THEN SetItem(cleared, CacheKey(placeId), item)
                        ELSE cleared,
              setItems |-> 2, purged |-> TRUE, raised |-> FALSE]
     ELSE [store |-> managed, setItems |-> 1, purged |-> FALSE, raised |-> FALSE]

\* the store setCachedReviews leaves
setCachedReviews(st, t, placeId, data, fetchDuration, victims, w1, w2) ==
  setCachedReviewsRun(st, t, placeId, data, fetchDuration, victims, w1, w2).store

\* clearCache(placeId); Undefined for a call without argument
clearCache(st, placeId) ==
  IF Truthy(placeId) THEN RemoveItem(st, CacheKey(placeId.v))
  ELSE [k \in (DOMAIN st) \ CacheKeys(st) |-> st[k]]

-----------------------------------------------------------------------------
(* Configuration: config.ts.                                               *)

\* getGooglePlacesConfig(): config holds the two values the environment gives,
\* null when a variable is not set
getGooglePlacesConfig == config

\* validateGooglePlacesConfig()
validateGooglePlacesConfig ==
  Truthy(getGooglePlacesConfig.apiKey) /\ Truthy(getGooglePlacesConfig.placeId)

-----------------------------------------------------------------------------
(* The fixed fallback snapshot.                                            *)

\* Date.now() when the service is constructed
StartTime == 300000000

Day == 24 * 60 * 60 * Ms(1000)

Review(author, rating, time) ==
  [author_name |-> author, rating |-> rating, time |-> time]

\* a rating with one decimal, in tenths
Tenths(n) == [t |-> "number", v |-> n, unit |-> "tenths"]

fallbackReviews ==
  PlaceDetails(Str("Entreprise de Design d'Interieur"), Tenths(48), Num(25),
               Arr(<<Review("Marie Dubois", 5, StartTime - 14 * Day),
                     Review("Pierre Martin", 5, StartTime - 30 * Day),
                     Review("Sophie Laurent", 4, StartTime - 21 * Day)>>),
               Str("fallback"))

-----------------------------------------------------------------------------
(* The network: what fetch() of the reviews endpoint can produce, and      *)
(* fetchPlaceDetails on top of it.                                         *)

\* an outcome of one operation: a value, or a thrown error
Returned(v) == [ok |-> TRUE, value |-> v, error |-> NonError]
Thrown(e) == [ok |-> FALSE, value |-> Undefined, error |-> e]

\* the body of an answer: { status, result } (no error_message)
ApiBody(status, result) == Obj([status |-> status, result |-> result])

\* the text the switch of lines 388-414 gives for a status that is not ok
HttpErrorMessage(status) ==
  "HTTP Error: " \o ToString(status) \o
    (CASE status = 400 -> " - Invalid request parameters"
       [] status = 401 -> " - Invalid API key"
       [] status = 403 -> " - API access forbidden"
       [] status = 404 -> " - Place not found"
       [] status = 429 -> " - Rate limit exceeded"
       [] status \in {500, 502, 503, 504} -> " - Google server error"
       [] OTHER -> " - ")

\* the try block of fetchPlaceDetails (lines 372-431) on what the network did:
\*   "reject"  fetch rejects (TypeError: Failed to fetch)
\*   "timeout" withTimeout rejects first (Request timeout after 15000ms)
\*   "http"    an answer whose status is not ok
\*   "badjson" response.json() rejects (SyntaxError)
\*   "body"    response.json() gives net.data
FetchTry(net) ==
  CASE net.k = "reject" -> Thrown(ErrorNamed("TypeError", "Failed to fetch"))
    [] net.k = "timeout" -> Thrown(Error("Request timeout after 15000ms"))
    [] net.k = "http" -> Thrown(Error(HttpErrorMessage(net.status)))
    [] net.k = "badjson" ->
         Thrown(ErrorNamed("SyntaxError", "Unexpected token < in JSON at position 0"))
    [] OTHER ->
         IF ~Truthy(net.data) \/ net.data.t # "object"
         THEN Thrown(Error("Invalid API response format"))
         ELSE IF Truthy(Member(net.data, "status"))
                 /\ Member(net.data, "status") # Str("OK")
         THEN Thrown(Error("API Error: " \o Member(net.data, "status").v))
         ELSE Returned(net.data)

\* fetchPlaceDetails(placeId, apiKey): the try block and the catch of lines 432-443
fetchPlaceDetails(net) ==
  LET r == FetchTry(net)
  IN IF r.ok THEN r
     ELSE IF r.error.name = "AbortError" \/ Includes(r.error.message, "timeout")
     THEN Thrown(Error("Request timeout - Google Places API took too long to respond"))
     ELSE IF Includes(r.error.message, "Failed to fetch")
             \/ Includes(r.error.message, "NetworkError")
     THEN Thrown(Error("Network error - Unable to connect to Google Places API"))
     ELSE r

-----------------------------------------------------------------------------
(* Asynchronous calls.  A call record holds the position (pc) of one call  *)
(* and its locals.  The operators below take the state g (a record of the  *)
(* variables) and give the state after one synchronous stretch of code.    *)

RATE_LIMIT_DELAY == Ms(100)

\* how many calls the model runs
NCalls == 3
Calls == 1..NCalls

NoItem == [parses |-> FALSE, v |-> Undefined, s |-> "<no item>"]

IdleCall ==
  [kind |-> "idle", pc |-> "idle", placeId |-> "", startTime |-> 0,
   attempt |-> 0, maxRetries |-> 0, baseDelay |-> 0, maxDelay |-> 0,
   wakeAt |-> 0, timeoutAt |-> 0,
   ret |-> Undefined, thrown |-> NonError, tier |-> "none",
   itemAtCall |-> NoItem, probes |-> 0, requests |-> 0, fnError |-> NonError,
   onlineTimeouts |-> 0, submitted |-> 0, started |-> 0, response |-> Undefined]

Cur ==
  [store |-> store, now |-> now, online |-> online, onlineEvent |-> onlineEvent,
   config |-> config, calls |-> calls, apiCallQueue |-> apiCallQueue,
   isProcessingQueue |-> isProcessingQueue, lastApiCall |-> lastApiCall,
   worker |-> worker, requestLog |-> requestLog]

Become(g) ==
  /\ store' = g.store
  /\ now' = g.now
  /\ online' = g.online
  /\ onlineEvent' = g.onlineEvent
  /\ config' = g.config
  /\ calls' = g.calls
  /\ apiCallQueue' = g.apiCallQueue
  /\ isProcessingQueue' = g.isProcessingQueue
  /\ lastApiCall' = g.lastApiCall
  /\ worker' = g.worker
  /\ requestLog' = g.requestLog

\* what the storage does in one setCachedReviews call: the outcomes of the two
\* setItem calls and the entries manageCacheSize removes
Choice(w1, w2, victims) == [w1 |-> w1, w2 |-> w2, victims |-> victims]

\* the timeout of the per-attempt fetch (line 383) and of the probe (line 353)
FETCH_TIMEOUT == Ms(15000)
PROBE_TIMEOUT == Ms(5000)

\* the shortest time the network takes to answer
Latency == 3

Fail_Rethrow(g, c, error) ==
  [g EXCEPT !.calls[c].pc = "done", !.calls[c].thrown = error,
            !.calls[c].tier = "rejected"]

Fail_CacheFallback(g, c, error) ==
  LET r == getCachedReviews(g.store, g.now, g.calls[c].placeId, TRUE)
  IN [g EXCEPT !.store = IF Truthy(r.ret) THEN r.store
                         ELSE setCachedReviews(r.store, g.now, g.calls[c].placeId,
                                               fallbackReviews, Undefined, {},
                                               "stored", "stored"),
               !.calls[c].pc = "done",
               !.calls[c].thrown = error,
               !.calls[c].ret = IF Truthy(r.ret) THEN r.ret ELSE fallbackReviews,
               !.calls[c].tier = IF Truthy(r.ret) THEN "stale" ELSE "fallback"]

\* the orchestrator's catch block (lines 207-224)
Fail(g, c, error) ==
  LET r == getCachedReviews(g.store, g.now, g.calls[c].placeId, TRUE)
  IN [g EXCEPT !.store = r.store,
               !.calls[c].pc = "done",
               !.calls[c].thrown = error,
               !.calls[c].ret = IF Truthy(r.ret) THEN r.ret ELSE fallbackReviews,
               !.calls[c].tier = IF Truthy(r.ret) THEN "stale" ELSE "fallback"]

Complete_CacheFallback(g, c, out, ch) ==
  IF out.ok
  THEN [g EXCEPT !.store = setCachedReviews(g.store, g.now, g.calls[c].placeId,
                              fallbackReviews, Undefined, ch.victims, ch.w1, ch.w2),
                 !.calls[c].response = out.value,
                 !.calls[c].pc = "done", !.calls[c].ret = fallbackReviews,
                 !.calls[c].tier = "fallback"]
  ELSE Fail(g, c, out.error)

\* the orchestrator after `await this.makeRateLimitedApiCall(...)` (lines 187-206)
Complete(g, c, out, ch) ==
  IF ~out.ok THEN Fail(g, c, out.error)
  ELSE LET response == out.value
           result == Member(response, "result")
           given == Member(result, "reviews")
           reviews == IF Truthy(given) THEN given ELSE Arr(<<>>)
           g0 == [g EXCEPT !.calls[c].response = response]
       IN IF Member(response, "status") = Str("OK") /\ Truthy(result)
          THEN IF ~IsArray(reviews)
               THEN Fail(g0, c, ErrorNamed("TypeError", "reviews.filter is not a function"))
               ELSE LET placeDetails ==
                          PlaceDetails(Member(result, "name"), Member(result, "rating"),
                                       Member(result, "user_ratings_total"),
                                       Arr(filterAndSortReviews(reviews.v)),
                                       Member(result, "place_id"))
                    IN [g0 EXCEPT !.store =
                                     setCachedReviews(g.store, g.now, g.calls[c].placeId,
                                                      placeDetails,
                                                      Num(g.now - g.calls[c].startTime),
                                                      ch.victims, ch.w1, ch.w2),
                                  !.calls[c].pc = "done",
                                  !.calls[c].ret = placeDetails,
                                  !.calls[c].tier = "live"]
          ELSE Fail(g0, c, Error("API Error: " \o
                                  (IF Member(response, "status").t = "string"
                                   THEN Member(response, "status").v ELSE "undefined")))

\* the log keeps the times of the last two requests
LastTwo(log) == IF Len(log) <= 2 THEN log ELSE SubSeq(log, Len(log) - 1, Len(log))

\* fn() is invoked (line 290): for the orchestrator fn is fetchPlaceDetails and
\* the request leaves for the reviews endpoint
InvokeFn(g, c) ==
  [g EXCEPT !.calls[c].pc = "in_fn",
            !.calls[c].requests = @ + 1,
            !.calls[c].wakeAt = g.now + Latency,
            !.calls[c].timeoutAt = IF g.calls[c].kind = "getPlaceDetails"
                                   THEN g.now + FETCH_TIMEOUT ELSE g.now + Latency,
            !.requestLog = IF g.calls[c].kind = "getPlaceDetails"
                           THEN LastTwo(Append(@, g.now)) ELSE @]

\* the head of one loop round of retryWithBackoffAndJitter (lines 279-290)
AttemptStart(g, c) ==
  IF ~g.online
  THEN [g EXCEPT !.calls[c].pc = "retry_wait_online",
                 !.calls[c].wakeAt = g.now + Ms(10000)]
  ELSE InvokeFn(g, c)

\* the closure of makeRateLimitedApiCall from `this.lastApiCall = Date.now()`
\* (lines 476-477): the retry engine starts with the orchestrator's arguments
BeginApiCall(g, c) ==
  AttemptStart([g EXCEPT !.lastApiCall = g.now,
                         !.calls[c].attempt = 0,
                         !.calls[c].maxRetries = 3,
                         !.calls[c].baseDelay = Ms(1000),
                         !.calls[c].maxDelay = Ms(30000)], c)

\* the closure of makeRateLimitedApiCall up to its first await (lines 466-477)
StartClosure(g, c) ==
  LET timeSinceLastCall == g.now - g.lastApiCall
  IN IF timeSinceLastCall < RATE_LIMIT_DELAY
     THEN [g EXCEPT !.calls[c].pc = "rate_wait",
                    !.calls[c].wakeAt = g.now + (RATE_LIMIT_DELAY - timeSinceLastCall)]
     ELSE BeginApiCall(g, c)

\* the position of the next closure among the closures started so far
NextStarted(g) == 1 + Cardinality({c \in Calls : g.calls[c].started > 0})

WorkerLoop_NoLoop(g) ==
  IF g.worker = 0 /\ g.apiCallQueue # <<>>
  THEN StartClosure([g EXCEPT !.apiCallQueue = Tail(g.apiCallQueue),
                              !.worker = Head(g.apiCallQueue),
                              !.calls[Head(g.apiCallQueue)].started = NextStarted(g)],
                    Head(g.apiCallQueue))
  ELSE [g EXCEPT !.isProcessingQueue = FALSE, !.worker = 0]

\* processApiQueue from the test of its loop (lines 498-505): shift() takes the
\* first closure and the loop awaits it
WorkerLoop(g) ==
  IF g.apiCallQueue # <<>>
  THEN StartClosure([g EXCEPT !.apiCallQueue = Tail(g.apiCallQueue),
                              !.worker = Head(g.apiCallQueue),
                              !.calls[Head(g.apiCallQueue)].started = NextStarted(g)],
                    Head(g.apiCallQueue))
  ELSE [g EXCEPT !.isProcessingQueue = FALSE, !.worker = 0]

processApiQueue_NoGuard(g) ==
  IF g.apiCallQueue = <<>> THEN g
  ELSE WorkerLoop([g EXCEPT !.isProcessingQueue = TRUE])

\* processApiQueue() (lines 491-506)
processApiQueue(g) ==
  IF g.isProcessingQueue \/ g.apiCallQueue = <<>> THEN g
  ELSE WorkerLoop([g EXCEPT !.isProcessingQueue = TRUE])

makeRateLimitedApiCall_Coalesce(g, c) ==
  LET r == getCachedReviews(g.store, g.now, g.calls[c].placeId, FALSE)
  IN IF Truthy(r.ret)
     THEN [g EXCEPT !.calls[c].pc = "done", !.calls[c].ret = r.ret,
                    !.calls[c].tier = "cache"]
     ELSE processApiQueue([g EXCEPT !.apiCallQueue = Append(@, c),
                                    !.calls[c].pc = "queued",
                                    !.calls[c].submitted =
                                       1 + Cardinality({d \in Calls :
                                                          g.calls[d].submitted > 0})])

\* makeRateLimitedApiCall(apiCall) (lines 463-486)
makeRateLimitedApiCall(g, c) ==
  processApiQueue([g EXCEPT !.apiCallQueue = Append(@, c),
                            !.calls[c].pc = "queued",
                            !.calls[c].submitted =
                               1 + Cardinality({d \in Calls : g.calls[d].submitted > 0})])

\* retryWithBackoffAndJitter settles with out.  A direct caller gets the outcome;
\* inside makeRateLimitedApiCall the closure hands it on and returns, the worker
\* takes the next closure, and the orchestrator continues.
RetrySettle(g, c, out, ch) ==
  LET g1 == [g EXCEPT !.calls[c].wakeAt = 0, !.calls[c].timeoutAt = 0]
  IN IF g.calls[c].kind = "retry"
     THEN [g1 EXCEPT !.calls[c].pc = "done",
                     !.calls[c].ret = out.value,
                     !.calls[c].thrown = out.error,
                     !.calls[c].tier = IF out.ok THEN "resolved"
                                       ELSE IF g.calls[c].tier = "exhausted"
                                       THEN "exhausted" ELSE "rejected"]
     ELSE Complete(WorkerLoop([g1 EXCEPT !.calls[c].attempt = 0,
                                         !.calls[c].fnError = NonError]), c, out, ch)

\* Math.random(), in hundredths
Randoms == {0, 50, 99}

RetryDelay_IgnoreRetryAfter(cls, attempt, baseDelay, maxDelay, rnd) ==
  Min(Min(baseDelay * 2^attempt, maxDelay)
      + (rnd * Min(baseDelay * 2^attempt, maxDelay)) \div 1000, maxDelay)

RetryDelay_JitterUncapped(cls, attempt, baseDelay, maxDelay, rnd) ==
  LET exponentialDelay == Min(baseDelay * 2^attempt, maxDelay)
      jitter == (rnd * exponentialDelay) \div 1000
  IN IF Truthy(cls.retryAfter) THEN cls.retryAfter.v ELSE exponentialDelay + jitter

RetryDelay_GrowingSuggestion(cls, attempt, baseDelay, maxDelay, rnd) ==
  LET exponentialDelay == Min(baseDelay * 2^attempt, maxDelay)
      jitter == (rnd * exponentialDelay) \div 1000
      finalDelay == Min(exponentialDelay + jitter, maxDelay)
  IN IF Truthy(cls.retryAfter) THEN cls.retryAfter.v * 2^attempt ELSE finalDelay

\* the delay before the next attempt (lines 306-312) when Math.random() gives rnd
RetryDelay(cls, attempt, baseDelay, maxDelay, rnd) ==
  LET exponentialDelay == Min(baseDelay * 2^attempt, maxDelay)
      jitter == (rnd * exponentialDelay) \div 1000
      finalDelay == Min(exponentialDelay + jitter, maxDelay)
  IN IF Truthy(cls.retryAfter) THEN cls.retryAfter.v ELSE finalDelay

\* the delays the catch block may choose for error, over the values of Math.random()
RetryDelays(g, c, error) ==
  LET cls == createGooglePlacesError(error, "", g.online)
  IN {RetryDelay(cls, g.calls[c].attempt, g.calls[c].baseDelay, g.calls[c].maxDelay,
                 rnd) : rnd \in Randoms}

NoChoice == Choice("stored", "stored", {})

RetryCatch_IgnoreRetryable(g, c, error, delay) ==
  IF g.calls[c].attempt = g.calls[c].maxRetries
  THEN RetrySettle([g EXCEPT !.calls[c].tier =
                       IF createGooglePlacesError(error, "", g.online).retryable
                       THEN "exhausted" ELSE "rejected"], c, Thrown(error), NoChoice)
  ELSE [g EXCEPT !.calls[c].pc = "backoff",
                 !.calls[c].wakeAt = g.now + delay]

RetryCatch_OneMore(g, c, error, delay) ==
  IF ~createGooglePlacesError(error, "", g.online).retryable
  THEN RetrySettle(g, c, Thrown(error), NoChoice)
  ELSE IF g.calls[c].attempt = g.calls[c].maxRetries + 1
  THEN RetrySettle([g EXCEPT !.calls[c].tier = "exhausted"], c, Thrown(error),
                   NoChoice)
  ELSE [g EXCEPT !.calls[c].pc = "backoff",
                 !.calls[c].wakeAt = g.now + delay]

\* the catch block of retryWithBackoffAndJitter (lines 291-317) and, when the
\* loop ends, `throw lastError` (line 320); delay is one of RetryDelays
RetryCatch(g, c, error, delay) ==
  LET lastError == error
  IN
  IF ~createGooglePlacesError(error, "", g.online).retryable
  THEN RetrySettle(g, c, Thrown(error), NoChoice)
  ELSE IF g.calls[c].attempt = g.calls[c].maxRetries
  THEN RetrySettle([g EXCEPT !.calls[c].tier = "exhausted"], c, Thrown(lastError),
                   NoChoice)
  ELSE [g EXCEPT !.calls[c].pc = "backoff",
                 !.calls[c].wakeAt = g.now + delay]

\* validateNetworkConnectivity() sends its probe (lines 171, 347-354)
SendProbe(g, c) ==
  [g EXCEPT !.calls[c].pc = "probe",
            !.calls[c].probes = @ + 1,
            !.calls[c].wakeAt = g.now + Latency,
            !.calls[c].timeoutAt = g.now + PROBE_TIMEOUT]

StartGetPlaceDetails_ConfigFirst(g, c, placeId) ==
  LET key == CacheKey(placeId)
      r == getCachedReviews(g.store, g.now, placeId, FALSE)
      g1 == [g EXCEPT !.calls[c] = [IdleCall EXCEPT
                                      !.kind = "getPlaceDetails",
                                      !.placeId = placeId,
                                      !.startTime = g.now,
                                      !.itemAtCall = IF key \in DOMAIN g.store
                                                     THEN g.store[key] ELSE NoItem]]
  IN IF ~validateGooglePlacesConfig \/ ~Truthy(getGooglePlacesConfig.apiKey)
     THEN [g1 EXCEPT !.calls[c].pc = "done", !.calls[c].ret = fallbackReviews,
                     !.calls[c].tier = "fallback"]
     ELSE IF Truthy(r.ret)
     THEN [g1 EXCEPT !.store = r.store, !.calls[c].pc = "done", !.calls[c].ret = r.ret,
                     !.calls[c].tier = "cache"]
     ELSE IF ~g.online
     THEN [g1 EXCEPT !.store = r.store, !.calls[c].pc = "wait_online",
                     !.calls[c].wakeAt = g.now + Ms(5000)]
     ELSE SendProbe([g1 EXCEPT !.store = r.store], c)

\* retryWithBackoffAndJitter(fn, maxRetries, baseDelay, maxDelay) called directly,
\* up to its first await (lines 270-290)
retryWithBackoffAndJitter(g, c, maxRetries, baseDelay, maxDelay) ==
  AttemptStart([g EXCEPT !.calls[c] = [IdleCall EXCEPT !.kind = "retry",
                                                       !.startTime = g.now,
                                                       !.maxRetries = maxRetries,
                                                       !.baseDelay = baseDelay,
                                                       !.maxDelay = maxDelay]], c)

StartGetPlaceDetails_NoConfigCheck(g, c, placeId) ==
  LET key == CacheKey(placeId)
      r == getCachedReviews(g.store, g.now, placeId, FALSE)
      g1 == [g EXCEPT !.store = r.store,
                      !.calls[c] = [IdleCall EXCEPT
                                      !.kind = "getPlaceDetails",
                                      !.placeId = placeId,
                                      !.startTime = g.now,
                                      !.itemAtCall = IF key \in DOMAIN g.store
                                                     THEN g.store[key] ELSE NoItem]]
  IN IF Truthy(r.ret)
     THEN [g1 EXCEPT !.calls[c].pc = "done", !.calls[c].ret = r.ret,
                     !.calls[c].tier = "cache"]
     ELSE IF ~g.online
     THEN [g1 EXCEPT !.calls[c].pc = "wait_online",
                     !.calls[c].wakeAt = g.now + Ms(5000)]
     ELSE SendProbe(g1, c)

\* getPlaceDetails(placeId) up to its first await (lines 121-171)
StartGetPlaceDetails(g, c, placeId) ==
  LET key == CacheKey(placeId)
      r == getCachedReviews(g.store, g.now, placeId, FALSE)
      g1 == [g EXCEPT !.store = r.store,
                      !.calls[c] = [IdleCall EXCEPT
                                      !.kind = "getPlaceDetails",
                                      !.placeId = placeId,
                                      !.startTime = g.now,
                                      !.itemAtCall = IF key \in DOMAIN g.store
                                                     THEN g.store[key] ELSE NoItem]]
  IN IF Truthy(r.ret)
     THEN [g1 EXCEPT !.calls[c].pc = "done", !.calls[c].ret = r.ret,
                     !.calls[c].tier = "cache"]
     ELSE IF ~validateGooglePlacesConfig \/ ~Truthy(getGooglePlacesConfig.apiKey)
     THEN [g1 EXCEPT !.calls[c].pc = "done", !.calls[c].ret = fallbackReviews,
                     !.calls[c].tier = "fallback"]
     ELSE IF ~g.online
     THEN [g1 EXCEPT !.calls[c].pc = "wait_online",
                     !.calls[c].wakeAt = g.now + Ms(5000)]
     ELSE SendProbe(g1, c)

-----------------------------------------------------------------------------
(* The steps of the calls and of their environment.                        *)

Places == {"p1"}

Choices(st) ==
  {Choice(w1, w2, v) :
     w1 \in WriteOutcomes, w2 \in {"stored", "other"}, v \in EvictionChoices(st)}
  \ {Choice(w1, "other", v) : w1 \in {"stored", "other"}, v \in EvictionChoices(st)}

\* what the reviews endpoint may answer
GoodReviews ==
  Arr(<<Review("a", 5, 10), Review("b", 3, 30), Review("c", 4, 20),
        Review("d", 4, 20)>>)

GoodResult ==
  Obj([name |-> Str("Acme"), rating |-> Tenths(45), user_ratings_total |-> Num(10),
       reviews |-> GoodReviews, place_id |-> Str("p1")])

ApiResults ==
  {GoodResult,
   Obj([name |-> Str("Acme"), rating |-> Tenths(45), user_ratings_total |-> Num(10),
        place_id |-> Str("p1")]),
   Obj([name |-> Str("Acme"), reviews |-> GoodReviews, place_id |-> Str("p1")]),
   Obj([name |-> Str("Acme"), rating |-> Tenths(45), user_ratings_total |-> Num(10),
        reviews |-> Str("none"), place_id |-> Str("p1")])}

NetOutcomes ==
  {[k |-> "timeout"], [k |-> "badjson"]}
  \cup {[k |-> "http", status |-> h] : h \in {400, 429}}
  \cup {[k |-> "body", data |-> ApiBody(Str("OK"), r)] : r \in ApiResults}
  \cup {[k |-> "body", data |-> d] :
          d \in {Null, ApiBody(Str("OK"), Undefined), ApiBody(Undefined, GoodResult),
                 ApiBody(Str("ZERO_RESULTS"), Undefined)}}

\* fetchPlaceDetails over NetOutcomes, computed once
FetchOutcomes == [net \in NetOutcomes |-> fetchPlaceDetails(net)]

\* the components of the page call getPlaceDetails(p) when the page loads, one
\* after the other without awaiting; calls are numbered in the order they start
GetPlaceDetails(c, p) ==
  /\ calls[c].kind = "idle"
  /\ \A d \in Calls : d < c => calls[d].kind # "idle"
  /\ now = StartTime
  /\ Become(StartGetPlaceDetails(Cur, c, p))
  /\ UNCHANGED <<harness, flips>>

\* a caller that makes its calls in immediate succession: the earlier calls have
\* returned and no time has passed since they were made
GetPlaceDetailsInTurn(c, p) ==
  /\ calls[c].kind = "idle"
  /\ \A d \in Calls : d < c => calls[d].pc = "done" /\ calls[d].startTime = now
  /\ Become(StartGetPlaceDetails(Cur, c, p))
  /\ UNCHANGED <<harness, flips>>

\* the arguments of the direct calls of retryWithBackoffAndJitter
MaxRetriesBound == 2
RetryArguments ==
  {[maxRetries |-> m, baseDelay |-> d[1], maxDelay |-> d[2]] :
     m \in 0..MaxRetriesBound, d \in {<<Ms(1000), Ms(30000)>>, <<Ms(100), Ms(150)>>}}

\* a caller calls retryWithBackoffAndJitter(op, maxRetries, baseDelay, maxDelay)
RetryWithBackoffAndJitter(c, a) ==
  /\ calls[c].kind = "idle"
  /\ \A d \in Calls : d < c => calls[d].pc = "done"
  /\ Become(retryWithBackoffAndJitter(Cur, c, a.maxRetries, a.baseDelay, a.maxDelay))
  /\ UNCHANGED <<harness, flips>>

\* a value thrown that is no Error
ThrownString == [instanceOfError |-> FALSE, name |-> "string", message |-> "failed"]

\* what an invocation of op may do
OpOutcomes ==
  {Returned(Str("done")), Thrown(ThrownString)}
  \cup {Thrown(Error(m)) :
          m \in {"Failed to fetch", "HTTP Error: 429 - Rate limit exceeded",
                 "HTTP Error: 400 Bad Request", "HTTP Error: 404 - Place not found",
                 "API Error: REQUEST_DENIED", "API Error: ZERO_RESULTS",
                 "API Error: INVALID_REQUEST", "API Error: UNKNOWN_ERROR",
                 "API Error: NOT_FOUND", "API Error: OVER_QUERY_LIMIT",
                 "Something else went wrong"}}

\* the invocation of op by a direct call of the retry engine settles with out
OpSettles(c, out) ==
  /\ calls[c].pc = "in_fn"
  /\ calls[c].kind = "retry"
  /\ now >= calls[c].wakeAt
  /\ LET g == [Cur EXCEPT !.calls[c].fnError = out.error]
     IN IF out.ok
        THEN Become(RetrySettle(g, c, out, NoChoice))
        ELSE \E delay \in RetryDelays(g, c, out.error) :
               Become(RetryCatch(g, c, out.error, delay))
  /\ UNCHANGED <<harness, flips>>

OnlineWaitTimeout_Proceed(c) ==
  /\ calls[c].pc = "wait_online"
  /\ now >= calls[c].wakeAt
  /\ Become(SendProbe(Cur, c))
  /\ UNCHANGED <<harness, flips>>

\* the timer of waitForOnline(5000) fires (error-handling.ts lines 247-250) and
\* the orchestrator throws (line 166)
OnlineWaitTimeout(c) ==
  /\ calls[c].pc = "wait_online"
  /\ now >= calls[c].wakeAt
  /\ Become(Fail(Cur, c, Error("User is offline and no cached data available")))
  /\ UNCHANGED <<harness, flips>>

\* the timer of waitForOnline(10000) fires inside the retry engine (line 286)
RetryOnlineWaitTimeout(c) ==
  /\ calls[c].pc = "retry_wait_online"
  /\ now >= calls[c].wakeAt
  /\ LET g == [Cur EXCEPT !.calls[c].onlineTimeouts = @ + 1]
         e == Error("User is offline and connection timeout exceeded")
     IN \E delay \in RetryDelays(g, c, e) : Become(RetryCatch(g, c, e, delay))
  /\ UNCHANGED <<harness, flips>>

\* the calls that wait in waitForOnline continue, in the order of the call ids
RECURSIVE ResumeWaiting(_, _)
ResumeWaiting(g, n) ==
  IF n = 0 THEN g
  ELSE LET h == ResumeWaiting(g, n - 1)
       IN CASE h.calls[n].pc = "wait_online" -> SendProbe(h, n)
            [] h.calls[n].pc = "retry_wait_online" -> InvokeFn(h, n)
            [] OTHER -> h

\* how often the connection changes in one behaviour
MaxFlips == 2

\* some call is in progress
Active == \E c \in Calls : calls[c].pc \notin {"idle", "done"}

\* the browser goes offline
GoOffline ==
  /\ online
  /\ Active
  /\ flips < MaxFlips
  /\ online' = FALSE
  /\ flips' = flips + 1
  /\ UNCHANGED <<store, now, onlineEvent, config, calls, apiCallQueue,
                 isProcessingQueue, lastApiCall, worker, requestLog, harness>>

\* the browser comes online and queues the 'online' event
GoOnline ==
  /\ ~online
  /\ Active
  /\ flips < MaxFlips
  /\ online' = TRUE
  /\ onlineEvent' = TRUE
  /\ flips' = flips + 1
  /\ UNCHANGED <<store, now, config, calls, apiCallQueue, isProcessingQueue,
                 lastApiCall, worker, requestLog, harness>>

\* the 'online' event is dispatched: every onlineHandler runs (lines 252-256)
DispatchOnline ==
  /\ onlineEvent
  /\ Become(ResumeWaiting([Cur EXCEPT !.onlineEvent = FALSE], NCalls))
  /\ UNCHANGED <<harness, flips>>

\* the probe answers (validateNetworkConnectivity returns true)
ProbeSucceeds(c) ==
  /\ calls[c].pc = "probe"
  /\ now >= calls[c].wakeAt
  /\ now < calls[c].timeoutAt
  /\ Become(makeRateLimitedApiCall(Cur, c))
  /\ UNCHANGED <<harness, flips>>

ProbeFails_Proceed(c) ==
  /\ calls[c].pc = "probe"
  /\ now >= calls[c].wakeAt
  /\ Become(makeRateLimitedApiCall(Cur, c))
  /\ UNCHANGED <<harness, flips>>

\* the probe's fetch rejects or its timeout fires (returns false; line 173 throws)
ProbeFails(c) ==
  /\ calls[c].pc = "probe"
  /\ now >= calls[c].wakeAt
  /\ Become(Fail(Cur, c, Error("Network connectivity validation failed")))
  /\ UNCHANGED <<harness, flips>>

\* the setTimeout of the rate limiter fires (line 473)
RateWaitDone(c) ==
  /\ calls[c].pc = "rate_wait"
  /\ now >= calls[c].wakeAt
  /\ Become(BeginApiCall(Cur, c))
  /\ UNCHANGED <<harness, flips>>

\* the setTimeout of the backoff fires (line 316): next round of the loop
BackoffDone(c) ==
  /\ calls[c].pc = "backoff"
  /\ now >= calls[c].wakeAt
  /\ Become(AttemptStart([Cur EXCEPT !.calls[c].attempt = @ + 1], c))
  /\ UNCHANGED <<harness, flips>>

\* the request of fetchPlaceDetails settles with net
FetchSettles(c, net) ==
  /\ calls[c].pc = "in_fn"
  /\ calls[c].kind = "getPlaceDetails"
  /\ IF net.k = "timeout" THEN now >= calls[c].timeoutAt
     ELSE now >= calls[c].wakeAt /\ now < calls[c].timeoutAt
  /\ LET out == FetchOutcomes[net]
         g == [Cur EXCEPT !.calls[c].fnError = out.error]
     IN IF out.ok
        THEN \E ch \in Choices(store) : Become(RetrySettle(g, c, out, ch))
        ELSE \E delay \in RetryDelays(g, c, out.error) :
               Become(RetryCatch(g, c, out.error, delay))
  /\ UNCHANGED <<harness, flips>>

\* the deadlines the calls wait for
Deadlines ==
  {calls[c].wakeAt : c \in {d \in Calls : calls[d].pc \in
      {"wait_online", "retry_wait_online", "probe", "rate_wait", "backoff", "in_fn"}}}
  \cup {calls[c].timeoutAt : c \in {d \in Calls : calls[d].pc \in {"probe", "in_fn"}}}

\* time passes, up to the next deadline
AdvanceTime ==
  /\ \E t \in Deadlines :
       /\ t > now
       /\ \A u \in Deadlines : u > now => t <= u
       /\ now' = t
  /\ UNCHANGED <<store, online, onlineEvent, flips, config, calls, apiCallQueue,
                 isProcessingQueue, lastApiCall, worker, requestLog, harness>>

-----------------------------------------------------------------------------
(* The orchestrator's specification.                                       *)

CachedData ==
  PlaceDetails(Str("Cached Business"), Tenths(40), Num(5), Arr(<<>>), Str("p1"))

StoredEntry(data, t, version) ==
  JSONstringify([CacheEntry(data, t, Undefined) EXCEPT !.version = version])

\* what localStorage may hold for a place when the page loads
InitialItems ==
  {StoredEntry(CachedData, StartTime - Ms(1000), Str(CACHE_VERSION)),
   StoredEntry(CachedData, StartTime - CACHE_DURATION - Ms(1000), Str(CACHE_VERSION)),
   StoredEntry(CachedData, StartTime - Ms(1000), Str("0.9.0")),
   Text("{broken")}

Configs ==
  {[apiKey |-> Str("key"), placeId |-> Str("p1")],
   [apiKey |-> Null, placeId |-> Str("p1")],
   [apiKey |-> Str("key"), placeId |-> Null]}

IdleHarness == [op |-> "none"]

InitCommon ==
  /\ now = StartTime
  /\ onlineEvent = FALSE
  /\ calls = [c \in Calls |-> IdleCall]
  /\ apiCallQueue = <<>>
  /\ isProcessingQueue = FALSE
  /\ lastApiCall = 0
  /\ worker = 0
  /\ requestLog = <<>>
  /\ harness = IdleHarness

Init ==
  /\ InitCommon
  /\ flips = 0
  /\ online \in BOOLEAN
  /\ config \in Configs
  /\ \E items \in [Places -> InitialItems \cup {NoItem}] :
       store = [k \in {CacheKey(p) : p \in {q \in Places : items[q] # NoItem}}
                       \cup {"theme"} |->
                  IF k = "theme" THEN Text("dark")
                  ELSE items[CHOOSE p \in Places : CacheKey(p) = k]]


\* one page: a getPlaceDetails call, which may be repeated at once, and the
\* connection changing under it
Next ==
  \/ \E c \in Calls, p \in Places : GetPlaceDetailsInTurn(c, p)
  \/ \E c \in Calls : OnlineWaitTimeout(c)
  \/ \E c \in Calls : RetryOnlineWaitTimeout(c)
  \/ \E c \in Calls : ProbeSucceeds(c)
  \/ \E c \in Calls : ProbeFails(c)
  \/ \E c \in Calls : BackoffDone(c)
  \/ \E c \in Calls, net \in NetOutcomes : FetchSettles(c, net)
  \/ GoOffline
  \/ GoOnline
  \/ DispatchOnline
  \/ AdvanceTime

Spec == Init /\ [][Next]_vars

-----------------------------------------------------------------------------
(* Properties of the orchestrator.                                         *)

\* v has the shape of a PlaceDetails value
IsPlaceDetails(v) ==
  /\ v.t = "object"
  /\ DOMAIN v.v = {"name", "rating", "user_ratings_total", "reviews", "place_id"}
  /\ IsArray(v.v.reviews)

\* call c waits for something that will happen: a timer, an answer or a timeout
\* of its own, or, in the queue, the settling of the call the worker awaits
Pending(c) ==
  \/ calls[c].pc \in {"wait_online", "retry_wait_online", "probe", "rate_wait",
                      "backoff", "in_fn"}
  \/ /\ calls[c].pc = "queued"
     /\ isProcessingQueue
     /\ worker \in Calls \ {c}
     /\ calls[worker].pc \in {"retry_wait_online", "rate_wait", "backoff", "in_fn"}

\* the entry the store held for the place when call c was made is structurally
\* valid and of the current version
ValidAtCall(c) ==
  /\ calls[c].itemAtCall.parses
  /\ validateCacheData(calls[c].itemAtCall.v)
  /\ Member(calls[c].itemAtCall.v, "version") = Str(CACHE_VERSION)

FreshAtCall(c) ==
  ValidAtCall(c) /\ Before(calls[c].startTime, Member(calls[c].itemAtCall.v, "expiresAt"))

ExpiredAtCall(c) ==
  ValidAtCall(c) /\ ~Before(calls[c].startTime, Member(calls[c].itemAtCall.v, "expiresAt"))

C2_StaleCacheTier ==
  \A c \in Calls :
    (/\ calls[c].kind = "getPlaceDetails"
     /\ calls[c].pc = "done"
     /\ ExpiredAtCall(c)
     /\ calls[c].thrown # NonError)
    => /\ calls[c].tier = "stale"
       /\ calls[c].ret = Member(calls[c].itemAtCall.v, "data")

\* C3: a call made while the store holds a fresh (valid, current-version) entry
\* returns that entry's snapshot at once, with no probe and no request, whatever
\* the configuration and the connection; a call repeated at once returns an
\* equal snapshot, and no request has been sent.
C3_FreshCachePrecedence ==
  \A c \in Calls :
    (calls[c].kind = "getPlaceDetails" /\ FreshAtCall(c))
    => /\ calls[c].pc = "done"
       /\ calls[c].tier = "cache"
       /\ calls[c].ret = Member(calls[c].itemAtCall.v, "data")
       /\ calls[c].probes = 0
       /\ calls[c].requests = 0
       /\ requestLog = <<>>
       /\ \A d \in Calls :
            (d > c /\ calls[d].kind = "getPlaceDetails"
                   /\ calls[d].placeId = calls[c].placeId
                   /\ calls[d].startTime = calls[c].startTime)
            => FreshAtCall(d) /\ calls[d].ret = calls[c].ret

\* two calls in immediate succession served from the cache, with an invalid
\* configuration and no connection
C3_Witness ==
  /\ \A c \in {1, 2} : calls[c].pc = "done" /\ FreshAtCall(c) /\ calls[c].tier = "cache"
  /\ ~validateGooglePlacesConfig
  /\ ~online

\* the API answered call c with status "OK" and a result
AnsweredOK(c) ==
  /\ Member(calls[c].response, "status") = Str("OK")
  /\ Truthy(Member(calls[c].response, "result"))

\* the snapshot built from the result of the answer (lines 189-195)
BuiltFrom(response) ==
  LET result == Member(response, "result")
      given == Member(result, "reviews")
  IN PlaceDetails(Member(result, "name"), Member(result, "rating"),
                  Member(result, "user_ratings_total"),
                  Arr(filterAndSortReviews(IF IsArray(given) THEN given.v ELSE <<>>)),
                  Member(result, "place_id"))

\* what getCachedReviews(p) returns right after call c
ReadBack(c) == getCachedReviews(store, now, calls[c].placeId, FALSE).ret

-----------------------------------------------------------------------------
(* filterAndSortReviews applied to review lists.                           *)

\* the longest list, and the number of different review times
MaxInput == 14
TimeValues == 4

\* the list of n reviews whose ratings and times follow the pattern q: every
\* q[1]-th review has rating 3 and the others 4 and 5 in turn; the times run
\* through 0..(TimeValues - 1)
ReviewList(n, q) ==
  [i \in 1..n |-> Review(ToString(i),
                         IF (i + q[2]) % q[1] = 0 THEN 3 ELSE 4 + (i % 2),
                         (q[3] * i + q[4]) % TimeValues)]

ReviewLists ==
  {ReviewList(n, q) :
     n \in 0..MaxInput, q \in {1, 2, 4} \X (0..3) \X (0..3) \X (0..2)}

\* filterAndSortReviews(reviews) is called
FilterAndSortReviews(reviews) ==
  /\ harness = IdleHarness
  /\ harness' = [op |-> "filterAndSortReviews", input |-> reviews,
                 output |-> filterAndSortReviews(reviews)]
  /\ UNCHANGED <<store, now, online, onlineEvent, flips, config, calls, apiCallQueue,
                 isProcessingQueue, lastApiCall, worker, requestLog>>

InitFilter ==
  /\ InitCommon
  /\ flips = 0
  /\ online = TRUE
  /\ config = [apiKey |-> Str("key"), placeId |-> Str("p1")]
  /\ store = [k \in {"theme"} |-> Text("dark")]

NextFilter == \E reviews \in ReviewLists : FilterAndSortReviews(reviews)

SpecFilter == InitFilter /\ [][NextFilter]_vars

\* the positions of the reviews of the list with rating >= 4
Kept(reviews) == {i \in 1..Len(reviews) : reviews[i].rating >= 4}

\* how many kept reviews stand before the one at position i: the later ones,
\* and among those of the same time the ones earlier in the list
Rank(reviews, i) ==
  Cardinality({j \in Kept(reviews) :
                 \/ reviews[j].time > reviews[i].time
                 \/ reviews[j].time = reviews[i].time /\ j < i})

\* C5: the reviews returned are exactly the given reviews with rating >= 4, by
\* time descending with equal times in the given order, cut to the first 10;
\* the filter comes before the cut, so no review with rating < 4 takes a place.
C5_FilterSortCap ==
  harness.op = "filterAndSortReviews" =>
    LET reviews == harness.input
        out == harness.output
    IN /\ Len(out) = Min(Cardinality(Kept(reviews)), 10)
       /\ \A i \in Kept(reviews) :
            Rank(reviews, i) < 10 => out[Rank(reviews, i) + 1] = reviews[i]
       /\ \A k \in 1..Len(out) : out[k].rating >= 4

\* more than 10 reviews pass the filter, reviews with rating < 4 stand among the
\* first 10 given, and some that pass have equal times
C5_Witness ==
  /\ harness.op = "filterAndSortReviews"
  /\ Cardinality(Kept(harness.input)) > 10
  /\ \E i \in 1..10 : harness.input[i].rating < 4
  /\ \E i, j \in Kept(harness.input) :
       i < j /\ harness.input[i].time = harness.input[j].time
  /\ Len(harness.output) = 10

-----------------------------------------------------------------------------
(* retryWithBackoffAndJitter called directly with an operation op.         *)

InitRetry ==
  /\ InitCommon
  /\ flips = 0
  /\ online \in BOOLEAN
  /\ config = [apiKey |-> Str("key"), placeId |-> Str("p1")]
  /\ store = [k \in {"theme"} |-> Text("dark")]

\* one direct call, and the connection changing under it
NextRetry ==
  \/ \E a \in RetryArguments : RetryWithBackoffAndJitter(1, a)
  \/ \E c \in Calls, out \in OpOutcomes : OpSettles(c, out)
  \/ \E c \in Calls : RetryOnlineWaitTimeout(c)
  \/ \E c \in Calls : BackoffDone(c)
  \/ GoOffline
  \/ GoOnline
  \/ DispatchOnline
  \/ AdvanceTime

SpecRetry == InitRetry /\ [][NextRetry]_vars

\* call c of the retry engine has rejected after its last attempt failed with
\* an error classified retryable (line 320)
Exhausted(c) ==
  calls[c].kind = "retry" /\ calls[c].pc = "done" /\ calls[c].tier = "exhausted"

FailsNonRetryable(c) ==
  /\ calls[c].kind = "retry"
  /\ calls[c].pc = "in_fn"
  /\ calls'[c].pc # "in_fn"
  /\ calls'[c].fnError # NonError
  /\ ~createGooglePlacesError(calls'[c].fnError, "", online).retryable

\* C7: when an invocation of op fails with an error classified non-retryable,
\* the call rejects in the same step with that error: no delay and no further
\* invocation; if it was the first attempt, op has been invoked exactly once.
C7_NonRetryableShortCircuit ==
  [][\A c \in Calls :
       FailsNonRetryable(c) =>
         /\ calls'[c].pc = "done"
         /\ calls'[c].tier = "rejected"
         /\ calls'[c].thrown = calls'[c].fnError
         /\ calls'[c].requests = calls[c].requests
         /\ calls'[c].attempt = calls[c].attempt
         /\ now' = now
         /\ calls[c].attempt = 0 => calls'[c].requests = 1]_vars

\* op failed with HTTP 400 and the call rejected with it after one invocation
C7_Witness ==
  \E c \in Calls :
    /\ calls[c].kind = "retry"
    /\ calls[c].pc = "done"
    /\ calls[c].tier = "rejected"
    /\ calls[c].requests = 1
    /\ calls[c].attempt = 0
    /\ calls[c].maxRetries = 2
    /\ calls[c].thrown = Error("HTTP Error: 400 Bad Request")

-----------------------------------------------------------------------------
(* Concurrent getPlaceDetails calls through the rate limiter's queue.      *)

\* what the reviews endpoint answers to the concurrent calls
QueueOutcomes ==
  {[k |-> "http", status |-> 429],
   [k |-> "body", data |-> ApiBody(Str("OK"), GoodResult)]}

InitQueue ==
  /\ InitCommon
  /\ flips = MaxFlips
  /\ online = TRUE
  /\ config = [apiKey |-> Str("key"), placeId |-> Str("p1")]
  /\ store = [k \in {"theme"} |-> Text("dark")]

\* the calls of the page and the steps of the event loop: timers, answers and
\* the passing of time
NextQueue ==
  \/ \E c \in Calls, p \in Places : GetPlaceDetails(c, p)
  \/ \E c \in Calls : ProbeSucceeds(c)
  \/ \E c \in Calls : RateWaitDone(c)
  \/ \E c \in Calls : BackoffDone(c)
  \/ \E c \in Calls, net \in QueueOutcomes : FetchSettles(c, net)
  \/ AdvanceTime

SpecQueue == InitQueue /\ [][NextQueue]_vars

\* C8: any two consecutive requests sent to the reviews endpoint are at least
\* RATE_LIMIT_DELAY (100 ms) apart, whichever calls and attempts they belong to.
C8_RequestSpacing ==
  Len(requestLog) = 2 => requestLog[2] - requestLog[1] >= RATE_LIMIT_DELAY

\* closure c has been submitted and not started
Waiting(c) == calls[c].submitted > 0 /\ calls[c].started = 0

\* C9: closures are started in the order of their submission and none is lost:
\* a closure submitted and not yet started stands in the queue, in submission
\* order, while the worker is active and awaits a closure that has not settled;
\* in the step in which the awaited closure settles, the worker starts the first
\* closure of the queue, or clears isProcessingQueue if the queue is empty.  So
\* every closure is started once the closures before it have settled.
C9_QueueOrderAndProgress ==
  /\ [](/\ \A c \in Calls :
            /\ calls[c].started > 0 => calls[c].started = calls[c].submitted
            /\ Waiting(c) =>
                 /\ \E i \in 1..Len(apiCallQueue) : apiCallQueue[i] = c
                 /\ isProcessingQueue
                 /\ worker \in Calls \ {c}
                 /\ calls[worker].pc \in {"retry_wait_online", "rate_wait", "backoff",
                                          "in_fn"}
        /\ \A i, j \in 1..Len(apiCallQueue) :
             i < j => calls[apiCallQueue[i]].submitted < calls[apiCallQueue[j]].submitted)
  /\ [][\A c \in Calls :
          (worker = c /\ calls[c].pc # "done" /\ calls'[c].pc = "done") =>
            IF apiCallQueue = <<>>
            THEN ~isProcessingQueue' /\ worker' = 0
            ELSE /\ worker' = Head(apiCallQueue)
                 /\ apiCallQueue' = Tail(apiCallQueue)
                 /\ calls'[Head(apiCallQueue)].started = calls[c].started + 1]_vars

\* three closures have been started, the last of them submitted while the
\* worker was busy and before the closure of an earlier call
C9_Witness ==
  \E c \in Calls : calls[c].started = 3 /\ c # 3 /\ calls[c].pc = "done"

-----------------------------------------------------------------------------
(* The cache operations called directly.                                   *)

CachePlaces == {"p1", "p2"}

\* an entry as setCachedReviews writes it, with the version of another release
\* or with no version at all
OtherVersions == {Str("0.9.0"), Str("2.0.0"), Undefined}

\* values under the key of a place that are no entry of the service: text that
\* is no JSON, JSON that is no object, and entries with a member missing or of
\* another type
CorruptItems ==
  LET e == CacheEntry(CachedData, StartTime - Ms(1000), Undefined)
      d == CachedData.v
  IN {Text("{broken"), Text("not json"), Json(Null), Json(Num(5)), Json(Str("x")),
      Json(Arr(<<>>))}
     \cup {Json(Obj(r)) :
              r \in {[e EXCEPT !.data = Undefined],
                     [e EXCEPT !.data = Null],
                     [e EXCEPT !.timestamp = Str("yesterday")],
                     [e EXCEPT !.timestamp = Undefined],
                     [e EXCEPT !.expiresAt = Null],
                     [e EXCEPT !.expiresAt = Undefined],
                     [e EXCEPT !.data = Obj([d EXCEPT !.name = Str("")])],
                     [e EXCEPT !.data = Obj([d EXCEPT !.name = Undefined])],
                     [e EXCEPT !.data = Obj([d EXCEPT !.rating = Null])],
                     [e EXCEPT !.data = Obj([d EXCEPT !.rating = Str("4.0")])],
                     [e EXCEPT !.data = Obj([d EXCEPT !.reviews = Undefined])],
                     [e EXCEPT !.data = Obj([d EXCEPT !.reviews = Str("none")])]}}

\* an expired entry of the current version that passes validateCacheData and
\* whose fetchDuration is a text
TextDuration ==
  JSONstringify(CacheEntry(CachedData, StartTime - CACHE_DURATION - Ms(1000), Str("120")))

\* what localStorage may hold under the key of a place
CacheItems ==
  {StoredEntry(CachedData, StartTime - Ms(1000), Str(CACHE_VERSION)),
   StoredEntry(CachedData, StartTime - CACHE_DURATION - Ms(1000), Str(CACHE_VERSION)),
   StoredEntry(CachedData, StartTime - CACHE_DURATION, Str(CACHE_VERSION)),
   Text(""),
   TextDuration}
  \cup CorruptItems
  \cup {StoredEntry(CachedData, StartTime - Ms(1000), v) : v \in OtherVersions}
  \cup {StoredEntry(CachedData, StartTime - CACHE_DURATION - Ms(1000), v) :
          v \in OtherVersions}

InitCache ==
  /\ InitCommon
  /\ flips = 0
  /\ online = TRUE
  /\ config = [apiKey |-> Str("key"), placeId |-> Str("p1")]
  /\ \E items \in [CachePlaces -> CacheItems \cup {NoItem}] :
       store = [k \in {CacheKey(p) : p \in {q \in CachePlaces : items[q] # NoItem}}
                       \cup {"theme"} |->
                  IF k = "theme" THEN Text("dark")
                  ELSE items[CHOOSE p \in CachePlaces : CacheKey(p) = k]]

\* getCachedReviews(placeId, allowExpired) is called
GetCachedReviews(placeId, allowExpired) ==
  LET r == getCachedReviews(store, now, placeId, allowExpired)
  IN /\ store' = r.store
     /\ harness' = [op |-> "getCachedReviews", placeId |-> placeId,
                    allowExpired |-> allowExpired,
                    item |-> IF CacheKey(placeId) \in DOMAIN store
                             THEN store[CacheKey(placeId)] ELSE NoItem,
                    ret |-> r.ret]
     /\ UNCHANGED <<now, online, onlineEvent, flips, config, calls, apiCallQueue,
                    isProcessingQueue, lastApiCall, worker, requestLog>>

NextCache ==
  \E placeId \in CachePlaces, allowExpired \in BOOLEAN :
    GetCachedReviews(placeId, allowExpired)

SpecCache == InitCache /\ [][NextCache]_vars

\* the stored item is an entry whose version tag is not the current version
VersionDiffers(item) ==
  /\ item.parses
  /\ item.v.t = "object"
  /\ Member(item.v, "version") # Str(CACHE_VERSION)

\* C10: a read, with allowExpired true or false, of a key that holds an entry
\* whose version is not the current one returns null and leaves the store
\* without that key.
C10_VersionMismatch ==
  (harness.op = "getCachedReviews" /\ VersionDiffers(harness.item))
  => /\ harness.ret = Null
     /\ CacheKey(harness.placeId) \notin DOMAIN store

\* a read with allowExpired of an unexpired, structurally valid entry of
\* version 0.9.0
C10_Witness ==
  /\ harness.op = "getCachedReviews"
  /\ harness.allowExpired
  /\ harness.item = StoredEntry(CachedData, StartTime - Ms(1000), Str("0.9.0"))
  /\ harness.ret = Null

\* the stored item parses to an entry whose expiresAt is a number not after t
ExpiredAt(item, t) ==
  /\ item.parses
  /\ Member(item.v, "expiresAt").t = "number"
  /\ t >= Member(item.v, "expiresAt").v

\* C11: a read with allowExpired = false of a key that holds an entry with
\* now >= expiresAt (now = expiresAt included) returns null and leaves the store
\* without that key.
C11_ExpiredNeverReturned ==
  (/\ harness.op = "getCachedReviews"
   /\ ~harness.allowExpired
   /\ ExpiredAt(harness.item, now))
  => /\ harness.ret = Null
     /\ CacheKey(harness.placeId) \notin DOMAIN store

\* a read at now = expiresAt exactly of a valid entry of the current version
C11_Witness ==
  /\ harness.op = "getCachedReviews"
  /\ ~harness.allowExpired
  /\ harness.item = StoredEntry(CachedData, now - CACHE_DURATION, Str(CACHE_VERSION))
  /\ harness.ret = Null
  /\ CacheKey(harness.placeId) \notin DOMAIN store

-----------------------------------------------------------------------------
(* The cache under many places: writes, reads, clears and one page call.   *)

\* how many places the callers name
NPlaces == 11

CapPlace(i) == "p" \o ToString(i)

\* the entry of place i in a store at page load: written i seconds ago (ages
\* "distinct"), the oldest ones written at the same time ("equal"), or every
\* second one written more than 24 hours ago ("expired")
CapItem(i, ages) ==
  StoredEntry(CachedData,
              CASE ages = "distinct" -> StartTime - i * Ms(1000)
                [] ages = "equal" -> StartTime - Min(i, MAX_CACHE_SIZE - 2) * Ms(1000)
                [] OTHER -> IF i % 2 = 0 THEN StartTime - CACHE_DURATION - i * Ms(1000)
                            ELSE StartTime - i * Ms(1000),
              Str(CACHE_VERSION))

\* a store with the entries of places 1..k
CapStore(k, ages) ==
  [key \in {CacheKey(CapPlace(i)) : i \in 1..k} \cup {"theme"} |->
     IF key = "theme" THEN Text("dark")
     ELSE CapItem(CHOOSE i \in 1..k : CacheKey(CapPlace(i)) = key, ages)]

InitCapacity ==
  /\ InitCommon
  /\ flips = MaxFlips
  /\ online = TRUE
  /\ config = [apiKey |-> Str("key"), placeId |-> Str("p1")]
  /\ \E k \in {MAX_CACHE_SIZE - 1, MAX_CACHE_SIZE},
        ages \in {"distinct", "equal", "expired"} : store = CapStore(k, ages)

\* the places the callers write, read and clear: one that is in the store at
\* page load and one that is not
CapWritten == {CapPlace(1), CapPlace(NPlaces)}

\* the outcomes of the two setItem calls; the second is made only after a
\* quota failure of the first
CapWrites ==
  {<<"stored", "stored">>, <<"other", "stored">>}
  \cup {<<"quota", w2>> : w2 \in WriteOutcomes}

\* setCachedReviews(placeId, data) is called
SetCachedReviews(placeId, data, w1, w2, victims) ==
  LET r == setCachedReviewsRun(store, now, placeId, data, Undefined, victims, w1, w2)
  IN /\ store' = r.store
     /\ harness' = [op |-> "setCachedReviews", placeId |-> placeId, data |-> data,
                    t |-> now, w1 |-> w1, w2 |-> w2,
                    sizeBefore |-> Cardinality(CacheKeys(store)),
                    itemBefore |-> IF CacheKey(placeId) \in DOMAIN store
                                   THEN store[CacheKey(placeId)] ELSE NoItem,
                    setItems |-> r.setItems, purged |-> r.purged, raised |-> r.raised]
     /\ UNCHANGED <<now, online, onlineEvent, flips, config, calls, apiCallQueue,
                    isProcessingQueue, lastApiCall, worker, requestLog>>

\* clearCache(placeId) is called; Undefined: without argument
ClearCache(placeId) ==
  /\ store' = clearCache(store, placeId)
  /\ harness' = [op |-> "clearCache", placeId |-> placeId]
  /\ UNCHANGED <<now, online, onlineEvent, flips, config, calls, apiCallQueue,
                 isProcessingQueue, lastApiCall, worker, requestLog>>

\* the direct calls of the cache operations, and then one getPlaceDetails call
NextCapacity ==
  \/ /\ calls[1].kind = "idle"
     /\ \E placeId \in CapWritten, w \in CapWrites, victims \in EvictionChoices(store) :
          SetCachedReviews(placeId, CachedData, w[1], w[2], victims)
  \/ /\ calls[1].kind = "idle"
     /\ \E placeId \in CapWritten, allowExpired \in BOOLEAN :
          GetCachedReviews(placeId, allowExpired)
  \/ /\ calls[1].kind = "idle"
     /\ \E placeId \in {Undefined, Str(CapPlace(1))} : ClearCache(placeId)
  \/ GetPlaceDetails(1, CapPlace(NPlaces))
  \/ ProbeSucceeds(1)
  \/ \E net \in {[k |-> "body", data |-> ApiBody(Str("OK"), GoodResult)]} :
        FetchSettles(1, net)
  \/ AdvanceTime

SpecCapacity == InitCapacity /\ [][NextCapacity]_vars

\* C12: the store never holds more than 10 entries under the prefix.
C12_Capacity == Cardinality(CacheKeys(store)) <= 10

\* a write of a new place into a store of 10 entries has left 10 entries
C12_Witness ==
  /\ harness.op = "setCachedReviews"
  /\ harness.sizeBefore = 10
  /\ harness.itemBefore = NoItem
  /\ CacheKey(harness.placeId) \in DOMAIN store
  /\ Cardinality(CacheKeys(store)) = 10

\* the write of the last setCachedReviews call reached the store
Written ==
  harness.w1 = "stored" \/ (harness.w1 = "quota" /\ harness.w2 = "stored")

\* C13: setCachedReviews never raises.  After a quota failure of the first
\* write it purges the expired entries and calls setItem exactly once more;
\* after any other failure, and after a success, it calls setItem once only.
\* A write that reached the store left the new entry; one that did not left the
\* key as it was or without entry, so that a later read may return null.
C13_WriteNeverRaises ==
  (harness.op = "setCachedReviews" /\ calls[1].kind = "idle") =>
    LET key == CacheKey(harness.placeId)
    IN /\ ~harness.raised
       /\ harness.setItems <= 2
       /\ IF harness.w1 = "quota"
          THEN /\ harness.setItems = 2
               /\ harness.purged
               /\ \A k \in CacheKeys(store) : ~ExpiredAt(store[k], harness.t)
          ELSE harness.setItems = 1 /\ ~harness.purged
       /\ IF Written
          THEN /\ key \in DOMAIN store
               /\ store[key] = JSONstringify(CacheEntry(harness.data, harness.t, Undefined))
          ELSE key \in DOMAIN store => store[key] = harness.itemBefore

\* the first write failed on the quota, the expired entries were purged, the
\* second write failed too, and a read of the key returns null
C13_Witness ==
  /\ harness.op = "setCachedReviews"
  /\ calls[1].kind = "idle"
  /\ harness.w1 = "quota"
  /\ harness.w2 = "quota"
  /\ harness.setItems = 2
  /\ harness.sizeBefore = 10
  /\ Cardinality(CacheKeys(store)) < 9
  /\ getCachedReviews(store, now, harness.placeId, FALSE).ret = Null

-----------------------------------------------------------------------------
(* Writes followed by reads as time passes.                                *)

\* the snapshots the callers write: two complete ones (the second without
\* user_ratings_total), one whose rating is NaN, and one with an empty name
Snapshots ==
  {CachedData,
   PlaceDetails(Str("Acme"), Tenths(45), Undefined, Arr(filterAndSortReviews(GoodReviews.v)),
                Str("p2")),
   PlaceDetails(Str("Acme"), NaN, Num(10), Arr(<<>>), Str("p1")),
   PlaceDetails(Str(""), Tenths(40), Num(5), Arr(<<>>), Str("p1"))}

\* the times at which the callers act: page load, a second later, 10 ms before
\* the 24 hours are over, 24 hours after page load, and a second after that
TripTimes ==
  {StartTime, StartTime + Ms(1000), StartTime + CACHE_DURATION - Ms(10),
   StartTime + CACHE_DURATION, StartTime + CACHE_DURATION + Ms(1000)}

\* time passes between two calls
TimePasses(t) ==
  /\ t > now
  /\ now' = t
  /\ UNCHANGED <<store, online, onlineEvent, flips, config, calls, apiCallQueue,
                 isProcessingQueue, lastApiCall, worker, requestLog, harness>>

InitTrip ==
  /\ InitCommon
  /\ flips = 0
  /\ online = TRUE
  /\ config = [apiKey |-> Str("key"), placeId |-> Str("p1")]
  /\ store = [k \in {"theme"} |-> Text("dark")]

NextTrip ==
  \/ \E placeId \in Places, data \in Snapshots, w \in CapWrites,
        victims \in EvictionChoices(store) :
          SetCachedReviews(placeId, data, w[1], w[2], victims)
  \/ \E placeId \in Places, allowExpired \in BOOLEAN :
        GetCachedReviews(placeId, allowExpired)
  \/ \E placeId \in Places : ClearCache(Str(placeId))
  \/ \E t \in TripTimes : TimePasses(t)

SpecTrip == InitTrip /\ [][NextTrip]_vars

\* what getCachedReviews(p) returns now for the place of the last write
ReadNow == getCachedReviews(store, now, harness.placeId, FALSE).ret

\* the snapshot has a non-empty name, a rating of type number and a reviews array
Cacheable(v) ==
  Truthy(Member(v, "name")) /\ IsNumber(Member(v, "rating"))
  /\ IsArray(Member(v, "reviews"))

-----------------------------------------------------------------------------
(* createGooglePlacesError applied to failure values.                      *)

\* messages that match more than one rule of the classifier, or a rule and the
\* text that an upstream error_message adds
MixedMessages ==
  {"HTTP Error: 429 - network timeout", "Request timeout: HTTP Error: 400",
   "HTTP Error: 400 - HTTP Error: 404", "HTTP Error: 404 - HTTP Error: 503",
   "HTTP Error: 500 - API Error: OVER_QUERY_LIMIT",
   "API Error: OVER_QUERY_LIMIT - API Error: REQUEST_DENIED",
   "API Error: REQUEST_DENIED - API Error: ZERO_RESULTS",
   "The request was aborted: HTTP Error: 429",
   "API Error: INVALID_REQUEST - Invalid place ID",
   "API Error: UNKNOWN_ERROR - request timeout"}

\* the failure values handed to the classifier
Failures ==
  {Error(m) : m \in Messages \cup MixedMessages}
  \cup {ErrorNamed("TypeError", "Failed to fetch"),
         ErrorNamed("AbortError", "The operation was aborted"), NonError, ThrownString}

\* createGooglePlacesError(error, context) is called
CreateGooglePlacesError(error, context) ==
  /\ harness = IdleHarness
  /\ harness' = [op |-> "createGooglePlacesError", error |-> error,
                 context |-> context, onLine |-> online,
                 result |-> createGooglePlacesError(error, context, online)]
  /\ UNCHANGED <<store, now, online, onlineEvent, flips, config, calls, apiCallQueue,
                 isProcessingQueue, lastApiCall, worker, requestLog>>

InitClassify ==
  /\ InitCommon
  /\ flips = 0
  /\ online \in BOOLEAN
  /\ config = [apiKey |-> Str("key"), placeId |-> Str("p1")]
  /\ store = [k \in {"theme"} |-> Text("dark")]

NextClassify ==
  \E error \in Failures, context \in {"", "Failed to fetch place details"} :
    CreateGooglePlacesError(error, context)

SpecClassify == InitClassify /\ [][NextClassify]_vars

\* C15: while the client is offline, every failure value is classified
\* OFFLINE_ERROR, retryable, with retryAfter 5000 ms, whatever its message.
C15_OfflinePriority ==
  (harness.op = "createGooglePlacesError" /\ ~harness.onLine)
  => /\ harness.result.type = "OFFLINE_ERROR"
     /\ harness.result.retryable
     /\ harness.result.retryAfter = Num(Ms(5000))

\* offline, a failure whose message names HTTP 400
C15_Witness ==
  /\ harness.op = "createGooglePlacesError"
  /\ ~harness.onLine
  /\ harness.error = Error("HTTP Error: 400 - Invalid request parameters")
  /\ harness.result.type = "OFFLINE_ERROR"

\* a rule: the texts it looks for in the message, and the classification
Rule(texts, type, retryable, retryAfter) ==
  [texts |-> texts, type |-> type, retryable |-> retryable, retryAfter |-> retryAfter]

\* the rules of the statement, in its order
RulesAsStated ==
  <<Rule({"fetch", "network", "Failed to fetch", "Network error"},
         "NETWORK_ERROR", TRUE, Num(Ms(2000))),
    Rule({"timeout", "aborted"}, "TIMEOUT_ERROR", TRUE, Num(Ms(3000))),
    Rule({"HTTP Error: 429"}, "RATE_LIMIT_ERROR", TRUE, Num(Ms(5000))),
    Rule({"HTTP Error: 400"}, "INVALID_REQUEST", FALSE, Undefined),
    Rule({"HTTP Error: 404"}, "NOT_FOUND", FALSE, Undefined),
    Rule({"HTTP Error: 500", "HTTP Error: 502", "HTTP Error: 503"},
         "API_ERROR", TRUE, Num(Ms(10000))),
    Rule({"API Error: OVER_QUERY_LIMIT"}, "RATE_LIMIT_ERROR", TRUE, Num(Ms(60000))),
    Rule({"API Error: REQUEST_DENIED"}, "API_ERROR", FALSE, Undefined),
    Rule({"API Error: ZERO_RESULTS"}, "NOT_FOUND", FALSE, Undefined)>>

\* the same with the two rules the statement leaves out, in their places
RulesAmended ==
  SubSeq(RulesAsStated, 1, 8)
  \o <<Rule({"API Error: INVALID_REQUEST"}, "INVALID_REQUEST", FALSE, Undefined),
        RulesAsStated[9],
        Rule({"API Error"}, "API_ERROR", TRUE, Num(Ms(30000)))>>

\* the first rule that matches the message, or the rule for unknown errors
RECURSIVE FirstMatch(_, _)
FirstMatch(m, rules) ==
  IF rules = <<>> THEN Rule({}, "UNKNOWN_ERROR", FALSE, Undefined)
  ELSE IF \E text \in Head(rules).texts : Includes(m, text) THEN Head(rules)
  ELSE FirstMatch(m, Tail(rules))

\* the last classification, made online, follows the first matching rule; a
\* value that is no Error is classified as unknown
FollowsRules(rules) ==
  (harness.op = "createGooglePlacesError" /\ harness.onLine) =>
    LET r == IF harness.error.instanceOfError
             THEN FirstMatch(harness.error.message, rules)
             ELSE Rule({}, "UNKNOWN_ERROR", FALSE, Undefined)
    IN /\ harness.result.type = r.type
       /\ harness.result.retryable = r.retryable
       /\ harness.result.retryAfter = r.retryAfter

\* C16 as stated: online, the classification is that of the first matching
\* rule among network, timeout, HTTP 429, HTTP 400, HTTP 404, HTTP 500/502/503,
\* OVER_QUERY_LIMIT, REQUEST_DENIED, ZERO_RESULTS, and UNKNOWN_ERROR when none
\* of them matches.
C16_ClassificationAsStated == FollowsRules(RulesAsStated)

\* C16 amended: the same with the rule API status INVALID_REQUEST ->
\* INVALID_REQUEST non-retryable before ZERO_RESULTS, and the rule any other
\* "API Error" text -> API_ERROR retryable 30000 after it.
C16_Classification == FollowsRules(RulesAmended)

\* online, a message that names HTTP 429 and has network text is a network error
C16_Witness ==
  /\ harness.op = "createGooglePlacesError"
  /\ harness.onLine
  /\ harness.error = Error("HTTP Error: 429 - network timeout")
  /\ harness.result.type = "NETWORK_ERROR"
  /\ harness.result.retryAfter = Num(Ms(2000))

-----------------------------------------------------------------------------
(* Upstream API statuses in the retry engine.                              *)

ApiError(status) == Error("API Error: " \o status)

\* in this step, with the client online, the invocation of op by call c fails
\* with 'API Error: <status>' for one of the statuses
FailsWithApiError(c, statuses) ==
  /\ calls[c].kind = "retry"
  /\ calls[c].pc = "in_fn"
  /\ calls'[c].pc # "in_fn"
  /\ online
  /\ \E status \in statuses : calls'[c].fnError = ApiError(status)

\* the engine goes on to wait 30000 ms for the next attempt, or, after the last
\* attempt, rejects as exhausted
RetriedAfter30s(c) ==
  IF calls[c].attempt < calls[c].maxRetries
  THEN /\ calls'[c].pc = "backoff"
       /\ calls'[c].wakeAt = now + Ms(30000)
       /\ calls'[c].requests = calls[c].requests
  ELSE calls'[c].pc = "done" /\ calls'[c].tier = "exhausted"

\* online, 'API Error: <status>' is classified API_ERROR, retryable, 30000 ms
GenericApiError(status) ==
  LET g == createGooglePlacesError(ApiError(status), "", TRUE)
  IN g.type = "API_ERROR" /\ g.retryable /\ g.retryAfter = Num(Ms(30000))

\* C17 as stated: online, 'API Error: <status>' for a status other than
\* OVER_QUERY_LIMIT, REQUEST_DENIED and ZERO_RESULTS (INVALID_REQUEST,
\* UNKNOWN_ERROR, NOT_FOUND) is classified API_ERROR, retryable, 30000 ms, and
\* the retry engine retries it.
C17_OtherApiErrorsAsStated ==
  /\ [](\A status \in {"INVALID_REQUEST", "UNKNOWN_ERROR", "NOT_FOUND"} :
          GenericApiError(status))
  /\ [][\A c \in Calls :
          FailsWithApiError(c, {"INVALID_REQUEST", "UNKNOWN_ERROR", "NOT_FOUND"})
          => RetriedAfter30s(c)]_vars

\* C17 amended: that holds for the statuses other than OVER_QUERY_LIMIT,
\* REQUEST_DENIED, INVALID_REQUEST and ZERO_RESULTS (UNKNOWN_ERROR, NOT_FOUND),
\* the retry waiting 30000 ms unless the attempt was the last; INVALID_REQUEST is
\* classified INVALID_REQUEST, non-retryable, and the engine rejects at once.
C17_OtherApiErrors ==
  /\ [](/\ \A status \in {"UNKNOWN_ERROR", "NOT_FOUND"} : GenericApiError(status)
        /\ LET g == createGooglePlacesError(ApiError("INVALID_REQUEST"), "", TRUE)
           IN g.type = "INVALID_REQUEST" /\ ~g.retryable /\ g.retryAfter = Undefined)
  /\ [][\A c \in Calls :
          /\ FailsWithApiError(c, {"UNKNOWN_ERROR", "NOT_FOUND"}) => RetriedAfter30s(c)
          /\ FailsWithApiError(c, {"INVALID_REQUEST"})
             => /\ calls'[c].pc = "done"
                /\ calls'[c].tier = "rejected"
                /\ calls'[c].thrown = ApiError("INVALID_REQUEST")]_vars

\* online, op failed with 'API Error: UNKNOWN_ERROR' and the engine waits
\* 30000 ms for its next attempt
C17_Witness ==
  \E c \in Calls :
    /\ calls[c].kind = "retry"
    /\ calls[c].pc = "backoff"
    /\ calls[c].fnError = ApiError("UNKNOWN_ERROR")
    /\ calls[c].wakeAt = now + Ms(30000)
    /\ online

-----------------------------------------------------------------------------
(* The orchestrator without configuration, and without connection.         *)

\* C18: a call made while the store holds no fresh entry for the place and the
\* API key or the default place id is not configured has returned the fixed
\* fallback snapshot (rating 4.8, 3 reviews) with no probe and no request, and
\* the store holds for the place nothing that the call did not find there.
C18_MissingConfiguration ==
  \A c \in Calls :
    (/\ calls[c].kind = "getPlaceDetails"
     /\ ~FreshAtCall(c)
     /\ ~(Truthy(config.apiKey) /\ Truthy(config.placeId)))
    => /\ calls[c].pc = "done"
       /\ calls[c].tier = "fallback"
       /\ calls[c].ret = fallbackReviews
       /\ calls[c].ret.v.rating = Tenths(48)
       /\ Len(calls[c].ret.v.reviews.v) = 3
       /\ calls[c].thrown = NonError
       /\ calls[c].probes = 0
       /\ calls[c].requests = 0
       /\ calls[c].submitted = 0
       /\ requestLog = <<>>
       /\ \/ CacheKey(calls[c].placeId) \notin DOMAIN store
          \/ store[CacheKey(calls[c].placeId)] = calls[c].itemAtCall

\* the place id is not configured, the entry of the place had expired, and the
\* call returned the fallback
C18_Witness ==
  \E c \in Calls :
    /\ calls[c].pc = "done"
    /\ calls[c].tier = "fallback"
    /\ Truthy(config.apiKey)
    /\ config.placeId = Null
    /\ ExpiredAtCall(c)
    /\ online

\* call c is made in this step, offline, with a valid configuration and no
\* fresh entry for the place
StartsOffline(c) ==
  /\ calls[c].kind = "idle"
  /\ calls'[c].kind = "getPlaceDetails"
  /\ ~online
  /\ validateGooglePlacesConfig
  /\ ~Truthy(getCachedReviews(store, now, calls'[c].placeId, FALSE).ret)

\* C19: a call made offline with a valid configuration and no fresh entry waits
\* for the connection, once and for at most 5 seconds, having sent no probe and
\* no request. The wait ends either with the 'online' event, and the call sends
\* the probe, or 5 seconds after the call was made, and the call resolves to the
\* stale or the fallback snapshot without a probe, a request or a run of the
\* retry engine.
C19_OfflineAtCallTime ==
  /\ [](\A c \in Calls :
          calls[c].pc = "wait_online"
          => /\ calls[c].kind = "getPlaceDetails"
             /\ calls[c].wakeAt = calls[c].startTime + Ms(5000)
             /\ now <= calls[c].wakeAt
             /\ calls[c].probes = 0
             /\ calls[c].requests = 0
             /\ calls[c].submitted = 0)
  /\ [][\A c \in Calls :
          /\ StartsOffline(c) => calls'[c].pc = "wait_online"
          /\ calls'[c].pc = "wait_online" => calls[c].pc \in {"idle", "wait_online"}
          /\ (calls[c].pc = "wait_online" /\ calls'[c].pc # "wait_online")
             => IF onlineEvent /\ ~onlineEvent'
                THEN /\ calls'[c].pc = "probe"
                     /\ calls'[c].probes = 1
                     /\ calls'[c].requests = 0
                ELSE /\ now = calls[c].startTime + Ms(5000)
                     /\ calls'[c].pc = "done"
                     /\ calls'[c].tier \in {"stale", "fallback"}
                     /\ IsPlaceDetails(calls'[c].ret)
                     /\ calls'[c].thrown =
                          Error("User is offline and no cached data available")
                     /\ calls'[c].probes = 0
                     /\ calls'[c].requests = 0
                     /\ calls'[c].attempt = 0
                     /\ calls'[c].submitted = 0
                     /\ requestLog' = <<>>]_vars

\* the client stayed offline and the call resolved to the fallback 5 seconds
\* after it was made
C19_Witness ==
  \E c \in Calls :
    /\ calls[c].pc = "done"
    /\ calls[c].thrown = Error("User is offline and no cached data available")
    /\ calls[c].tier = "fallback"
    /\ now = calls[c].startTime + Ms(5000)
    /\ flips = 0
    /\ ~online

-----------------------------------------------------------------------------
(* Reads of entries that cannot be used.                                   *)

\* the stored value is not parseable JSON, or parses to something that
\* validateCacheData rejects
Unusable(item) ==
  /\ item # NoItem
  /\ ~item.parses \/ ~validateCacheData(item.v)

\* C20: a read of a stored value that is not parseable JSON, or that parses to
\* something lacking data, a numeric timestamp, a numeric expiresAt, a non-empty
\* data.name, a numeric data.rating or an array data.reviews, returns null,
\* with allowExpired true or false, and leaves the store without that key.
C20_SelfHealingReads ==
  (harness.op = "getCachedReviews" /\ Unusable(harness.item))
  => /\ harness.ret = Null
     /\ CacheKey(harness.placeId) \notin DOMAIN store

\* the same for the stored values other than the empty string
C20_NonEmptyValuesHeal ==
  (harness.op = "getCachedReviews" /\ Unusable(harness.item)
                                   /\ harness.item # Text(""))
  => /\ harness.ret = Null
     /\ CacheKey(harness.placeId) \notin DOMAIN store

-----------------------------------------------------------------------------
(* The refresh test and the component's background refresh.                *)

TWO_HOURS == 2 * 60 * 60 * Ms(1000)

\* the number an arithmetic operator makes of x: null is 0, the empty string is
\* 0, undefined and every other text, object or array of the model is NaN
ToNumber(x) ==
  CASE x.t = "number" -> x
    [] x.t = "null" -> Num(0)
    [] x.t = "string" /\ x.v = "" -> Num(0)
    [] OTHER -> NaN

shouldRefreshCache_Heal(st, t, placeId) ==
  LET key == CacheKey(placeId)
  IN IF key \notin DOMAIN st \/ st[key] = Text("") THEN [store |-> st, ret |-> TRUE]
     ELSE IF ~st[key].parses \/ st[key].v = Null
     THEN [store |-> RemoveItem(st, key), ret |-> TRUE]
     ELSE [store |-> st,
           ret |-> LET expiresAt == ToNumber(Member(st[key].v, "expiresAt"))
                   IN expiresAt.t = "number" /\ t >= expiresAt.v - TWO_HOURS]

\* shouldRefreshCache(placeId) at time t on store st (lines 688-706): the store
\* it leaves and the boolean it returns.  JSON.parse throwing, and reading
\* expiresAt of a parsed null throwing, end in the catch block; a comparison
\* with NaN is false.
shouldRefreshCache(st, t, placeId) ==
  LET key == CacheKey(placeId)
  IN IF key \notin DOMAIN st \/ st[key] = Text("") THEN [store |-> st, ret |-> TRUE]
     ELSE IF ~st[key].parses \/ st[key].v = Null THEN [store |-> st, ret |-> TRUE]
     ELSE [store |-> st,
           ret |-> LET expiresAt == ToNumber(Member(st[key].v, "expiresAt"))
                   IN expiresAt.t = "number" /\ t >= expiresAt.v - TWO_HOURS]

\* what localStorage may hold for the place when the component mounts: entries
\* written 22 hours ago, a moment less, 23 hours ago, and the items of CacheItems
RefreshItems ==
  {StoredEntry(CachedData, StartTime - CACHE_DURATION + TWO_HOURS, Str(CACHE_VERSION)),
   StoredEntry(CachedData, StartTime - CACHE_DURATION + TWO_HOURS + 1, Str(CACHE_VERSION)),
   StoredEntry(CachedData, StartTime - CACHE_DURATION + Ms(3600000), Str(CACHE_VERSION))}
  \cup CacheItems

InitRefresh ==
  /\ InitCommon
  /\ flips = MaxFlips
  /\ online = TRUE
  /\ config = [apiKey |-> Str("key"), placeId |-> Str("p1")]
  /\ \E item \in RefreshItems \cup {NoItem} :
       store = IF item = NoItem THEN [k \in {"theme"} |-> Text("dark")]
               ELSE [k \in {"theme", CacheKey("p1")} |->
                       IF k = "theme" THEN Text("dark") ELSE item]

\* shouldRefreshCache(placeId) is called
ShouldRefreshCache(placeId) ==
  LET r == shouldRefreshCache(store, now, placeId)
  IN /\ calls[1].kind = "idle"
     /\ store' = r.store
     /\ harness' = [op |-> "shouldRefreshCache", placeId |-> placeId,
                    item |-> IF CacheKey(placeId) \in DOMAIN store
                             THEN store[CacheKey(placeId)] ELSE NoItem,
                    t |-> now, ret |-> r.ret]
     /\ UNCHANGED <<now, online, onlineEvent, flips, config, calls, apiCallQueue,
                    isProcessingQueue, lastApiCall, worker, requestLog>>

\* the component's fetchReviews (part_000 lines 231-234): it asks
\* shouldRefreshCache and awaits getPlaceDetails
FetchReviews(placeId) ==
  LET r == shouldRefreshCache(store, now, placeId)
  IN /\ calls[1].kind = "idle"
     /\ harness' = [op |-> "fetchReviews", placeId |-> placeId,
                    item |-> IF CacheKey(placeId) \in DOMAIN store
                             THEN store[CacheKey(placeId)] ELSE NoItem,
                    t |-> now, ret |-> r.ret]
     /\ Become(StartGetPlaceDetails([Cur EXCEPT !.store = r.store], 1, placeId))
     /\ UNCHANGED flips

\* fetchReviews after its await (part_000 lines 264-277): with shouldRefresh
\* and details, it calls getPlaceDetails again and does not await it
BackgroundRefresh ==
  /\ harness.op = "fetchReviews"
  /\ calls[1].pc = "done"
  /\ calls[2].kind = "idle"
  /\ harness.ret
  /\ Truthy(calls[1].ret)
  /\ Become(StartGetPlaceDetails(Cur, 2, harness.placeId))
  /\ UNCHANGED <<harness, flips>>

\* what the reviews endpoint answers to the component's calls
RefreshOutcomes ==
  QueueOutcomes \cup {[k |-> "http", status |-> 400]}

NextRefresh ==
  \/ \E placeId \in Places : ShouldRefreshCache(placeId)
  \/ \E placeId \in Places : FetchReviews(placeId)
  \/ BackgroundRefresh
  \/ \E c \in Calls : ProbeSucceeds(c)
  \/ \E c \in Calls : RateWaitDone(c)
  \/ \E c \in Calls, net \in RefreshOutcomes : FetchSettles(c, net)
  \/ \E c \in Calls : BackoffDone(c)
  \/ AdvanceTime

SpecRefresh == InitRefresh /\ [][NextRefresh]_vars

\* the entry was written by setCachedReviews at its timestamp
WrittenEntry(item) ==
  /\ item.parses
  /\ validateCacheData(item.v)
  /\ Member(item.v, "timestamp").t = "number"
  /\ Member(item.v, "expiresAt") = Num(Member(item.v, "timestamp").v + CACHE_DURATION)

\* C21: shouldRefreshCache(p) returns true exactly when the store has no entry
\* for p, or the stored value cannot be read (JSON.parse throws, or gives null),
\* or now >= expiresAt - 2 hours for the stored expiresAt; it returns false for
\* an entry written less than 22 hours ago; it leaves the store as it was.
C21_ShouldRefresh ==
  /\ [](harness.op = "shouldRefreshCache"
        => /\ harness.ret <=>
                \/ harness.item = NoItem
                \/ ~harness.item.parses
                \/ harness.item.v = Null
                \/ LET expiresAt == ToNumber(Member(harness.item.v, "expiresAt"))
                   IN expiresAt.t = "number"
                      /\ harness.t >= expiresAt.v - 2 * 60 * 60 * Ms(1000)
           /\ (/\ WrittenEntry(harness.item)
               /\ harness.t < Member(harness.item.v, "timestamp").v
                                + 22 * 60 * 60 * Ms(1000))
              => ~harness.ret)
  /\ [][(harness'.op = "shouldRefreshCache" /\ harness' # harness)
        => store' = store]_vars

\* the refresh test was true for an unexpired entry written 22 hours before
C21_Witness ==
  /\ harness.op = "shouldRefreshCache"
  /\ WrittenEntry(harness.item)
  /\ harness.t = Member(harness.item.v, "timestamp").v + 22 * 60 * 60 * Ms(1000)
  /\ harness.ret
  /\ store[CacheKey(harness.placeId)] = harness.item

-----------------------------------------------------------------------------
(* The reviews of the snapshots the orchestrator returns.                  *)

\* only reviews of 4 stars and more, the most recent first, at most 10
FilteredSortedCapped(reviews) ==
  /\ \A i \in 1..Len(reviews) : reviews[i].rating >= 4
  /\ \A i, j \in 1..Len(reviews) : i < j => reviews[i].time >= reviews[j].time
  /\ Len(reviews) <= 10

\* C22: every snapshot a getPlaceDetails call returns from the live, the cache
\* or the fallback tier holds only reviews of rating >= 4, ordered by time
\* descending, and at most 10 of them.
C22_FilteredInEveryTier ==
  \A c \in Calls :
    (/\ calls[c].kind = "getPlaceDetails"
     /\ calls[c].pc = "done"
     /\ calls[c].tier \in {"live", "cache", "fallback"})
    => FilteredSortedCapped(calls[c].ret.v.reviews.v)

\* the same for the live and the cache tier alone
C22_LiveAndCacheFiltered ==
  \A c \in Calls :
    (/\ calls[c].kind = "getPlaceDetails"
     /\ calls[c].pc = "done"
     /\ calls[c].tier \in {"live", "cache"})
    => FilteredSortedCapped(calls[c].ret.v.reviews.v)

-----------------------------------------------------------------------------
(* Answers with an incomplete result.                                      *)

\* the result of the answer lacks rating, user_ratings_total or reviews
Incomplete(response) ==
  \E f \in {"rating", "user_ratings_total", "reviews"} :
    Member(Member(response, "result"), f) = Undefined

\* C23: a call that the API answered with status "OK" and a result lacking
\* rating, user_ratings_total or reviews returns the fallback snapshot or the
\* stale entry, and the store holds for the place nothing that the call did not
\* find there.
C23_IncompleteIsFailure ==
  \A c \in Calls :
    (/\ calls[c].kind = "getPlaceDetails"
     /\ calls[c].pc = "done"
     /\ AnsweredOK(c)
     /\ Incomplete(calls[c].response))
    => /\ calls[c].tier \in {"fallback", "stale"}
       /\ \/ CacheKey(calls[c].placeId) \notin DOMAIN store
          \/ store[CacheKey(calls[c].placeId)] = calls[c].itemAtCall

-----------------------------------------------------------------------------
(* The wait for the connection inside the retry engine.                    *)

\* C24: once the 10-second wait for the connection of a
\* retryWithBackoffAndJitter call has timed out, the call has rejected with
\* 'User is offline and connection timeout exceeded': it makes no further
\* attempt and no further wait.
C24_OfflineWaitTimeoutRejects ==
  \A c \in Calls :
    (calls[c].kind = "retry" /\ calls[c].onlineTimeouts > 0)
    => /\ calls[c].pc = "done"
       /\ calls[c].thrown = Error("User is offline and connection timeout exceeded")
       /\ calls[c].onlineTimeouts = 1

-----------------------------------------------------------------------------
(* Failures that the message marks non-retryable, and the connection.      *)

\* the message of the failure alone (the rules of lines 53-151) marks it
\* non-retryable
MarkedNonRetryable(error) ==
  error # NonError /\ ~createGooglePlacesError(error, "", TRUE).retryable

\* C25: after op has failed with a failure whose message marks it
\* non-retryable, retryWithBackoffAndJitter does not invoke op again, however
\* the connection changes.
C25_NonRetryableNeverReinvoked ==
  \A c \in Calls :
    (calls[c].kind = "retry" /\ MarkedNonRetryable(calls[c].fnError))
    => calls[c].pc # "in_fn"

\* the same as long as the client is online when the failure is classified
C25_NonRetryableOnlineRejects ==
  [][\A c \in Calls :
       (/\ calls[c].kind = "retry"
        /\ calls[c].pc = "in_fn"
        /\ calls'[c].pc # "in_fn"
        /\ MarkedNonRetryable(calls'[c].fnError)
        /\ online)
       => calls'[c].pc = "done" /\ calls'[c].thrown = calls'[c].fnError]_vars

-----------------------------------------------------------------------------
(* The background refresh of an entry that is about to expire.             *)

\* C26: when shouldRefreshCache was true while the store held an unexpired
\* entry for the place, the getPlaceDetails call the component issues as its
\* background refresh has, once it has returned, sent a request and replaced
\* the entry with one written during the refresh, expiring 24 hours after it.
C26_BackgroundRefresh ==
  (/\ harness.op = "fetchReviews"
   /\ harness.ret
   /\ FreshAtCall(1)
   /\ calls[2].kind = "getPlaceDetails"
   /\ calls[2].pc = "done")
  => /\ calls[2].requests >= 1
     /\ CacheKey(harness.placeId) \in DOMAIN store
     /\ WrittenEntry(store[CacheKey(harness.placeId)])
     /\ Member(store[CacheKey(harness.placeId)].v, "timestamp").v >= calls[2].startTime

-----------------------------------------------------------------------------
(* The waits between the attempts of the retry engine.                     *)

\* in this step the invocation of op by call c fails and the engine starts to
\* wait for its next attempt
StartsBackoff(c) ==
  /\ calls[c].kind = "retry"
  /\ calls[c].pc = "in_fn"
  /\ calls'[c].pc = "backoff"

\* d is min(min(baseDelay * 2^k, maxDelay) + jitter, maxDelay) for a jitter of
\* 0 to 10% of the capped exponential delay
JitteredBackoff(d, k, baseDelay, maxDelay) ==
  LET capped == IF baseDelay * 2^k < maxDelay THEN baseDelay * 2^k ELSE maxDelay
  IN \E jitter \in 0..(capped \div 10) :
       d = IF capped + jitter < maxDelay THEN capped + jitter ELSE maxDelay

\* a classification that suggests no delay
NoSuggestion == Classified("API_ERROR", "Google Places API error", TRUE, Undefined)

\* C27: when an attempt of index k fails and attempts remain, the engine waits
\* for the classifier's suggested delay when there is one, and otherwise for
\* min(min(baseDelay * 2^k, maxDelay) + jitter, maxDelay) with a jitter of 0 to
\* 10% of the capped exponential delay.
C27_RetryDelay ==
  /\ [](\A a \in RetryArguments, k \in 0..MaxRetriesBound, rnd \in Randoms :
          JitteredBackoff(RetryDelay(NoSuggestion, k, a.baseDelay, a.maxDelay, rnd),
                          k, a.baseDelay, a.maxDelay))
  /\ [][\A c \in Calls :
          StartsBackoff(c)
          => LET cls == createGooglePlacesError(calls'[c].fnError, "", online)
                 d == calls'[c].wakeAt - now
             IN /\ calls[c].attempt < calls[c].maxRetries
                /\ IF cls.retryAfter # Undefined
                   THEN d = cls.retryAfter.v
                   ELSE JitteredBackoff(d, calls[c].attempt, calls[c].baseDelay,
                                        calls[c].maxDelay)]_vars

\* the second attempt failed with HTTP 429 and the engine waits the suggested
\* 5000 ms
C27_Witness ==
  \E c \in Calls :
    /\ calls[c].kind = "retry"
    /\ calls[c].pc = "backoff"
    /\ calls[c].attempt = 1
    /\ calls[c].fnError = Error("HTTP Error: 429 - Rate limit exceeded")
    /\ calls[c].wakeAt = now + Ms(5000)
    /\ online

\* C28: every wait that retryWithBackoffAndJitter(fn, maxRetries, baseDelay,
\* maxDelay) inserts between two attempts is at most maxDelay.
C28_MaxDelayBoundsWaits ==
  \A c \in Calls :
    (calls[c].kind = "retry" /\ calls[c].pc = "backoff")
    => calls[c].wakeAt - now <= calls[c].maxDelay

\* the same for the orchestrator's maxDelay of 30000 ms alone
C28_OrchestratorMaxDelay ==
  \A c \in Calls :
    (calls[c].kind = "retry" /\ calls[c].pc = "backoff"
                            /\ calls[c].maxDelay = Ms(30000))
    => calls[c].wakeAt - now <= Ms(30000)

\* the failure that ends the round of call c in this step: the failure of op, or
\* the timeout of the wait for the connection
RoundFailure(c) ==
  IF calls[c].pc = "in_fn" THEN calls'[c].fnError
  ELSE Error("User is offline and connection timeout exceeded")

\* C29: the classifier gives a suggested delay to every failure it marks
\* retryable and none to the others; and each wait of the retry engine before a
\* next attempt is the suggested delay of the failure's kind, whatever the
\* baseDelay, the maxDelay and the index of the attempt.
C29_FixedWaits ==
  /\ [](\A error \in Failures, onLine \in BOOLEAN :
          LET cls == createGooglePlacesError(error, "", onLine)
          IN IF cls.retryable
             THEN cls.retryAfter.t = "number" /\ cls.retryAfter.v > 0
             ELSE cls.retryAfter = Undefined)
  /\ [][\A c \in Calls :
          (/\ calls[c].kind = "retry"
           /\ calls[c].pc \in {"in_fn", "retry_wait_online"}
           /\ calls'[c].pc = "backoff")
          => LET cls == createGooglePlacesError(RoundFailure(c), "", online)
             IN /\ calls'[c].wakeAt - now = cls.retryAfter.v
                /\ cls.retryAfter.v \in {Ms(2000), Ms(3000), Ms(5000), Ms(10000),
                                          Ms(30000), Ms(60000)}]_vars

\* the second attempt of a call with baseDelay 100 ms failed with HTTP 429 and
\* the engine waits 5000 ms
C29_Witness ==
  \E c \in Calls :
    /\ calls[c].kind = "retry"
    /\ calls[c].pc = "backoff"
    /\ calls[c].attempt = 1
    /\ calls[c].requests = 2
    /\ calls[c].baseDelay = Ms(100)
    /\ calls[c].fnError = Error("HTTP Error: 429 - Rate limit exceeded")
    /\ calls[c].wakeAt - now = Ms(5000)

-----------------------------------------------------------------------------
(* Concurrent calls on a cold cache.                                       *)

\* call c returns in this step with live data
CompletesLive(c) ==
  /\ calls[c].kind = "getPlaceDetails"
  /\ calls[c].pc # "done"
  /\ calls'[c].pc = "done"
  /\ calls'[c].tier = "live"

\* the entry that call c writes when it returns at time t and the storage
\* accepts the write
EntryOf(c, t) ==
  setCachedReviews(store, t, calls[c].placeId, calls'[c].ret,
                   Num(t - calls[c].startTime), {}, "stored", "stored")
    [CacheKey(calls[c].placeId)]

\* C30: getPlaceDetails calls started together on a cold cache are not
\* coalesced.  Each has made its own cache check and found nothing, none is
\* served from the entry an earlier call wrote, and each that returns live data
\* has sent its own probe and at least one request of its own.  A call that
\* returns live data leaves in the store its own entry (or, if the storage
\* refused the write, what was there); the closures submitted after its closure
\* have not returned yet, and the next of them is started with no further look
\* at the cache: so the entry that remains is that of the last request answered,
\* which is the last one dispatched.
C30_NoCoalescing ==
  /\ [](\A c \in Calls :
          calls[c].kind = "getPlaceDetails"
          => /\ calls[c].itemAtCall = NoItem
             /\ calls[c].tier # "cache"
             /\ calls[c].pc = "queued" => calls[c].requests = 0
             /\ (calls[c].pc = "done" /\ calls[c].tier = "live")
                => calls[c].probes = 1 /\ calls[c].requests >= 1)
  /\ [][\A c \in Calls :
          CompletesLive(c)
          => /\ \A d \in Calls \ {c} :
                  (calls[d].submitted > calls[c].submitted \/ calls[d].pc = "probe")
                  => calls'[d].pc # "done" /\ calls'[d].requests <= 1
             /\ apiCallQueue # <<>>
                => /\ calls'[Head(apiCallQueue)].pc \in {"in_fn", "rate_wait"}
                   /\ calls'[Head(apiCallQueue)].started = calls[c].started + 1
             /\ LET key == CacheKey(calls[c].placeId)
                IN IF key \in DOMAIN store'
                   THEN \/ store'[key] = EntryOf(c, now)
                        \/ key \in DOMAIN store /\ store'[key] = store[key]
                   ELSE TRUE]_vars

\* every call has returned live data after one request of its own, and the
\* store holds the entry of the call whose closure was started last
C30_Witness ==
  /\ \A c \in Calls :
       /\ calls[c].pc = "done"
       /\ calls[c].tier = "live"
       /\ calls[c].requests = 1
  /\ \E c \in Calls :
       /\ calls[c].started = NCalls
       /\ CacheKey(calls[c].placeId) \in DOMAIN store
       /\ Member(store[CacheKey(calls[c].placeId)].v, "timestamp") = Num(now)
       /\ Member(store[CacheKey(calls[c].placeId)].v, "data") = calls[c].ret

-----------------------------------------------------------------------------
(* Mutual exclusion in the rate limiter's queue.                           *)

\* the closure of call c has been started and has not settled
Running(c) ==
  /\ calls[c].kind = "getPlaceDetails"
  /\ calls[c].started > 0
  /\ calls[c].pc # "done"

\* C31: at most one closure of the queue (a whole retry sequence) is between
\* its start and its settlement; while one is, isProcessingQueue is true and the
\* worker awaits it; and a request is only ever sent by the one running closure,
\* so the attempts of two calls do not interleave.
C31_MutualExclusion ==
  /\ [](/\ \A c, d \in Calls : (Running(c) /\ Running(d)) => c = d
        /\ \A c \in Calls :
             Running(c)
             => /\ isProcessingQueue
                /\ worker = c
                /\ calls[c].pc \in {"rate_wait", "in_fn", "backoff", "retry_wait_online"}
        /\ \A c \in Calls :
             (calls[c].kind = "getPlaceDetails" /\ ~Running(c) /\ calls[c].pc # "done")
             => calls[c].requests = 0)
  /\ [][\A c \in Calls :
          calls'[c].requests > calls[c].requests
          => /\ calls'[c].pc = "in_fn"
             /\ worker' = c
             /\ \A d \in Calls \ {c} :
                  calls[d].requests > 0 => calls'[d].pc = "done"]_vars

\* one call waits between two attempts of its retry sequence while the closures
\* of two other calls stand in the queue
C31_Witness ==
  \E c \in Calls :
    /\ Running(c)
    /\ calls[c].pc = "backoff"
    /\ calls[c].requests = 1
    /\ Len(apiCallQueue) = 2
    /\ \A d \in Calls \ {c} : calls[d].pc = "queued"

-----------------------------------------------------------------------------
(* The probe before the fetch.                                             *)

\* C32: a getPlaceDetails call submits its closure to the rate limiter, and so
\* sends a request to the reviews endpoint, only in the step in which its own
\* connectivity probe succeeds; when the probe fails the call fails with
\* 'Network connectivity validation failed' having sent no request and queued
\* nothing.
C32_ProbeBeforeFetch ==
  /\ [](\A c \in Calls :
          calls[c].kind = "getPlaceDetails"
          => /\ (calls[c].requests > 0 \/ calls[c].submitted > 0)
                => calls[c].probes = 1 /\ calls[c].pc # "probe"
             /\ calls[c].thrown = Error("Network connectivity validation failed")
                => /\ calls[c].pc = "done"
                   /\ calls[c].tier \in {"stale", "fallback"}
                   /\ calls[c].requests = 0
                   /\ calls[c].submitted = 0)
  /\ [][\A c \in Calls :
          /\ (calls[c].submitted = 0 /\ calls'[c].submitted > 0)
             => calls[c].pc = "probe" /\ now < calls[c].timeoutAt
          /\ (calls[c].kind = "getPlaceDetails" /\ calls[c].pc = "probe"
                                                /\ calls'[c].pc # "probe")
             => \/ /\ calls'[c].submitted > 0
                   /\ calls'[c].pc \in {"queued", "rate_wait", "in_fn",
                                         "retry_wait_online"}
                \/ /\ calls'[c].pc = "done"
                   /\ calls'[c].thrown = Error("Network connectivity validation failed")
                   /\ apiCallQueue' = apiCallQueue
                   /\ requestLog' = requestLog]_vars

\* the probe failed and the call returned the fallback without a request
C32_Witness ==
  \E c \in Calls :
    /\ calls[c].pc = "done"
    /\ calls[c].thrown = Error("Network connectivity validation failed")
    /\ calls[c].probes = 1
    /\ calls[c].requests = 0
    /\ calls[c].tier = "fallback"
    /\ requestLog = <<>>

-----------------------------------------------------------------------------
(* What a write removes.                                                   *)

\* the entries a direct setCachedReviews(placeId, ...) call of this step removed
\* from the store: those manageCacheSize removed, and the entries of other
\* places that are gone after the call
Deleted(placeId, victims) ==
  victims \cup (CacheKeys(store) \ (CacheKeys(store') \cup {CacheKey(placeId)}))

\* an entry of the smallest timestamp in the store before the call
Oldest(k) ==
  \A a \in CacheKeys(store) : TimestampOf(store[k]) <= TimestampOf(store[a])

WriteFailed(w) == w[1] = "other" \/ (w[1] = "quota" /\ w[2] # "stored")

\* C34: a setCachedReviews call whose write fails (and whose second write fails
\* too on the quota path) leaves in the store, unchanged, every entry that was
\* there before the call and was not expired.
C34_FailedWriteKeepsCache ==
  [][\A placeId \in CapWritten, w \in CapWrites, victims \in EvictionChoices(store) :
       (SetCachedReviews(placeId, CachedData, w[1], w[2], victims) /\ WriteFailed(w))
       => \A k \in CacheKeys(store) :
             ~ExpiredOrCorrupt(store[k], now)
             => k \in DOMAIN store' /\ store'[k] = store[k]]_vars

\* C35: a setCachedReviews call for a place that has an entry in the store
\* deletes the entry of no other place, so the number of entries does not
\* decrease.
C35_OverwriteDoesNotEvict ==
  [][\A placeId \in CapWritten, w \in CapWrites, victims \in EvictionChoices(store) :
       (/\ SetCachedReviews(placeId, CachedData, w[1], w[2], victims)
        /\ CacheKey(placeId) \in DOMAIN store)
       => /\ \A k \in CacheKeys(store) \ {CacheKey(placeId)} : k \in DOMAIN store'
          /\ Cardinality(CacheKeys(store')) >= Cardinality(CacheKeys(store))]_vars

\* the same for the calls whose first write is stored
C35_StoredOverwriteDoesNotEvict ==
  [][\A placeId \in CapWritten, victims \in EvictionChoices(store) :
       (/\ SetCachedReviews(placeId, CachedData, "stored", "stored", victims)
        /\ CacheKey(placeId) \in DOMAIN store)
       => Cardinality(CacheKeys(store')) >= Cardinality(CacheKeys(store))]_vars

-----------------------------------------------------------------------------
(* Who writes the cache.                                                   *)

\* C36: the store gains an entry, or an entry of it changes, only in the step
\* in which a getPlaceDetails call returns live data, after a request of its
\* own was answered with status "OK" and a result; the entry is that of the
\* call's place and holds the snapshot the call returns.  So the cache hit, the
\* missing configuration and every failure leave every entry as it was or
\* remove it, and the fallback snapshot is never written.
C36_OnlyLiveWrites ==
  /\ [][\A k \in DOMAIN store' :
          (k \notin DOMAIN store \/ store'[k] # store[k])
          => \E c \in Calls :
                /\ CompletesLive(c)
                /\ calls[c].pc = "in_fn"
                /\ calls[c].requests >= 1
                /\ Member(calls'[c].response, "status") = Str("OK")
                /\ Truthy(Member(calls'[c].response, "result"))
                /\ k = CacheKey(calls[c].placeId)
                /\ store'[k] = EntryOf(c, now)
                /\ calls'[c].ret # fallbackReviews]_vars
  /\ [](\A k \in CacheKeys(store) :
          store[k].parses /\ store[k].v.t = "object"
          => Member(store[k].v, "data") # fallbackReviews)

\* a call whose requests all failed returned the fallback and its place has no
\* entry in the store
C36_Witness ==
  \E c \in Calls :
    /\ calls[c].pc = "done"
    /\ calls[c].tier = "fallback"
    /\ calls[c].requests >= 1
    /\ calls[c].ret = fallbackReviews
    /\ CacheKey(calls[c].placeId) \notin DOMAIN store

-----------------------------------------------------------------------------
(* What a read removes.                                                    *)

\* the stored item is an entry that validateCacheData accepts, of the current
\* version, with now >= expiresAt at time t
StaleEntry(item, t) ==
  /\ item # NoItem
  /\ item.parses
  /\ validateCacheData(item.v)
  /\ Member(item.v, "version") = Str(CACHE_VERSION)
  /\ t >= Member(item.v, "expiresAt").v

C37_WrittenEntriesKept ==
  (/\ harness.op = "getCachedReviews"
   /\ harness.item # NoItem
   /\ harness.item.parses
   /\ Member(harness.item.v, "fetchDuration").t \in {"undefined", "number"}) =>
    LET key == CacheKey(harness.placeId)
    IN /\ (harness.allowExpired /\ StaleEntry(harness.item, now))
          => /\ harness.ret = Member(harness.item.v, "data")
             /\ key \in DOMAIN store
             /\ store[key] = harness.item
       /\ key \notin DOMAIN store
          => \/ Unusable(harness.item)
             \/ VersionDiffers(harness.item)
             \/ ExpiredAt(harness.item, now) /\ ~harness.allowExpired

-----------------------------------------------------------------------------
(* The failures fetchPlaceDetails reports and their classification.        *)

\* the failure fetchPlaceDetails throws for an answer of HTTP status h
HttpFailure(h) == fetchPlaceDetails([k |-> "http", status |-> h]).error

\* C38: the failure that fetchPlaceDetails throws for each HTTP status it
\* reports as a Google server error (500, 502, 503, 504) is classified
\* retryable; and, the client being online, the failure it throws when the
\* 15 s timeout of an attempt fires is classified TIMEOUT_ERROR, retryable,
\* with a suggested delay of 3000 ms.
C38_ServerErrorsRetryable ==
  harness.op = "createGooglePlacesError" =>
    /\ harness.error \in {HttpFailure(h) : h \in {500, 502, 503, 504}}
       => harness.result.retryable
    /\ (harness.onLine /\ harness.error = fetchPlaceDetails([k |-> "timeout"]).error)
       => /\ harness.result.type = "TIMEOUT_ERROR"
          /\ harness.result.retryable
          /\ harness.result.retryAfter = Num(Ms(3000))

\* the same without the status 504
C38_OtherServerErrorsRetryable ==
  harness.op = "createGooglePlacesError" =>
    /\ harness.error \in {HttpFailure(h) : h \in {500, 502, 503}}
       => harness.result.retryable /\ (harness.onLine => harness.result.type = "API_ERROR")
    /\ (harness.onLine /\ harness.error = fetchPlaceDetails([k |-> "timeout"]).error)
       => /\ harness.result.type = "TIMEOUT_ERROR"
          /\ harness.result.retryable
          /\ harness.result.retryAfter = Num(Ms(3000))

-----------------------------------------------------------------------------
(* waitForOnline called directly.  The harness holds the promise: whether  *)
(* its 'online' listener is registered, whether its timer is pending, how  *)
(* often resolve or reject was invoked, and its state.                     *)

\* the timeouts the callers pass: the tests (100, 1000), the orchestrator
\* (5000), the retry engine (10000) and the default (30000)
WaitTimeouts == {Ms(100), Ms(1000), Ms(5000), Ms(10000), Ms(30000)}

\* waitForOnline(timeout) is called (lines 240-259, the executor)
WaitForOnline(timeout) ==
  /\ harness = IdleHarness
  /\ harness' = [op |-> "waitForOnline", timeout |-> timeout, t |-> now,
                 onLine |-> online,
                 listener |-> ~online, timer |-> ~online,
                 settles |-> IF online THEN 1 ELSE 0,
                 state |-> IF online THEN "resolved" ELSE "pending",
                 settledAt |-> now, byEvent |-> FALSE,
                 error |-> Undefined]
  /\ UNCHANGED <<store, now, online, onlineEvent, flips, config, calls, apiCallQueue,
                 isProcessingQueue, lastApiCall, worker, requestLog>>

\* the 'online' event is dispatched; onlineHandler runs if it is registered
\* and leaves the timer pending
OnlineHandler_KeepTimer ==
  /\ onlineEvent
  /\ onlineEvent' = FALSE
  /\ harness' = IF harness.op = "waitForOnline" /\ harness.listener
                THEN [harness EXCEPT !.listener = FALSE,
                                     !.settles = @ + 1,
                                     !.state = IF @ = "pending" THEN "resolved" ELSE @,
                                     !.settledAt = IF harness.state = "pending"
                                                   THEN now ELSE @,
                                     !.byEvent = TRUE]
                ELSE harness
  /\ UNCHANGED <<store, now, online, flips, config, calls, apiCallQueue,
                 isProcessingQueue, lastApiCall, worker, requestLog>>

\* the 'online' event is dispatched; onlineHandler (lines 252-256) runs if it
\* is registered: clearTimeout, removeEventListener, resolve
OnlineHandler ==
  /\ onlineEvent
  /\ onlineEvent' = FALSE
  /\ harness' = IF harness.op = "waitForOnline" /\ harness.listener
                THEN [harness EXCEPT !.timer = FALSE,
                                     !.listener = FALSE,
                                     !.settles = @ + 1,
                                     !.state = IF @ = "pending" THEN "resolved" ELSE @,
                                     !.settledAt = IF harness.state = "pending"
                                                   THEN now ELSE @,
                                     !.byEvent = TRUE]
                ELSE harness
  /\ UNCHANGED <<store, now, online, flips, config, calls, apiCallQueue,
                 isProcessingQueue, lastApiCall, worker, requestLog>>

\* the timer's callback (lines 247-250) runs: removeEventListener, reject
TimeoutFires ==
  /\ harness.op = "waitForOnline"
  /\ harness.timer
  /\ now >= harness.t + harness.timeout
  /\ harness' = [harness EXCEPT
                   !.timer = FALSE,
                   !.listener = FALSE,
                   !.settles = @ + 1,
                   !.state = IF @ = "pending" THEN "rejected" ELSE @,
                   !.settledAt = IF harness.state = "pending" THEN now ELSE @,
                   !.error = IF harness.state = "pending"
                             THEN Error("Timeout waiting for online connection")
                             ELSE @]
  /\ UNCHANGED <<store, now, online, onlineEvent, flips, config, calls, apiCallQueue,
                 isProcessingQueue, lastApiCall, worker, requestLog>>

\* navigator.onLine changes; the browser queues an 'online' event when the
\* connection returns
ConnectionChanges ==
  /\ flips < MaxFlips
  /\ flips' = flips + 1
  /\ online' = ~online
  /\ onlineEvent' = IF online THEN onlineEvent ELSE TRUE
  /\ UNCHANGED <<store, now, config, calls, apiCallQueue, isProcessingQueue,
                 lastApiCall, worker, requestLog, harness>>

\* time passes up to the moment the pending timer is due
TimerDue ==
  /\ harness.op = "waitForOnline"
  /\ harness.timer
  /\ now < harness.t + harness.timeout
  /\ now' = harness.t + harness.timeout
  /\ UNCHANGED <<store, online, onlineEvent, flips, config, calls, apiCallQueue,
                 isProcessingQueue, lastApiCall, worker, requestLog, harness>>

InitWait ==
  /\ InitCommon
  /\ flips = 0
  /\ online \in BOOLEAN
  /\ config = [apiKey |-> Str("key"), placeId |-> Str("p1")]
  /\ store = [k \in {"theme"} |-> Text("dark")]

NextWait ==
  \/ \E timeout \in WaitTimeouts : WaitForOnline(timeout)
  \/ OnlineHandler
  \/ TimeoutFires
  \/ ConnectionChanges
  \/ TimerDue

SpecWait == InitWait /\ [][NextWait]_vars

\* C39: waitForOnline(timeout) settles exactly once.  Called online it has
\* resolved at once, with neither listener nor timer.  Called offline it stays
\* pending, listener registered and timer pending, until the first dispatch of
\* an 'online' event, which resolves it, or until the timer fires at the
\* timeout with no such dispatch before, which rejects it with 'Timeout
\* waiting for online connection'.  Once it has settled neither resolve nor
\* reject is invoked again, the listener is not registered, the timer is not
\* pending, and the outcome does not change.
C39_SettlesOnce ==
  /\ [](harness.op = "waitForOnline" =>
          /\ harness.settles <= 1
          /\ harness.state = "pending" <=> harness.settles = 0
          /\ harness.state = "pending"
             => /\ harness.listener /\ harness.timer
                /\ now <= harness.t + harness.timeout
          /\ harness.state # "pending" => ~harness.listener /\ ~harness.timer
          /\ harness.onLine
             => /\ harness.state = "resolved"
                /\ harness.settledAt = harness.t
                /\ ~harness.byEvent
          /\ (harness.state = "resolved" /\ ~harness.onLine) => harness.byEvent
          /\ harness.state = "rejected"
             => /\ ~harness.onLine
                /\ ~harness.byEvent
                /\ harness.settledAt = harness.t + harness.timeout
                /\ harness.error = Error("Timeout waiting for online connection"))
  /\ [][(harness.op = "waitForOnline" /\ harness.state # "pending")
        => harness' = harness]_vars
  /\ [][(harness.op = "waitForOnline" /\ harness.state = "pending")
        => /\ harness'.state = "resolved" <=> (onlineEvent /\ ~onlineEvent')
           /\ harness'.state = "rejected"
              => /\ now >= harness.t + harness.timeout
                 /\ onlineEvent' = onlineEvent]_vars

\* the wait was rejected at its timeout, and an 'online' event dispatched
\* afterwards found no listener
C39_Witness ==
  /\ harness.op = "waitForOnline"
  /\ harness.state = "rejected"
  /\ harness.settles = 1
  /\ online
  /\ ~onlineEvent
  /\ now = harness.t + harness.timeout

====
